---- MODULE Spec2Model ----
(***************************************************************************)
(* Model of BridgeDetector (src/src/libslic3r/BridgeDetector.cpp).         *)
(*                                                                         *)
(* Angles are integers on a grid of resolution/8: one unit is PI/720, so   *)
(* PI = 720, resolution (PI/90) = 8 and the first deduplication tolerance  *)
(* (resolution/8) = 1.  A comparison "diff < tol + EPSILON" of the source  *)
(* is "diff <= tol" on this grid.  The sentinel angle -1. (radians) is not *)
(* a grid angle; it is the integer NoAngle and no grid input equals it.    *)
(*                                                                         *)
(* Lengths are integers.  The arithmetic of the source on them keeps its   *)
(* width: the squared lengths of the boundary lines are summed and         *)
(* compared as floats (significand of 24 bits), the scores are computed    *)
(* and compared as doubles (significand of 53 bits), one rounding for      *)
(* each operation of the source.  std::sort orders the candidates by       *)
(* angle and leaves candidates of equal angle in the order the library's   *)
(* algorithm (libstdc++) puts them in, which the model follows step by     *)
(* step.                                                                   *)
(*                                                                         *)
(* The polygon kernel (ClipperUtils, Geometry, BoundingBox) is outside the *)
(* detector.  Of initialize() and detect_angle() its results are the       *)
(* detector's inputs, fixed when the detector is constructed and the same  *)
(* on every call; coverage() computes with the kernel on the region and    *)
(* the anchor regions, at angles that are multiples of PI/2:               *)
(*   expolygons      the boundary lines of the region, each with its       *)
(*                   Line::direction() and squared length, and its end     *)
(*                   points where coverage() is called;                    *)
(*   edges           the polylines of _edges: open or closed, and the      *)
(*                   direction first_point -> last_point;                  *)
(*   anchor_regions  the ExPolygons of _anchor_regions (rectangles),       *)
(*                   numbered from 0 as in the source;                     *)
(*   clipped         for a sweep angle, the lines intersection_ln returns, *)
(*                   each with its length, the anchors containing its end  *)
(*                   points, midpoint and quarter points, and the number   *)
(*                   of pieces intersection_ln(line, anchors) returns;     *)
(*   unsupported_lines  the directions of the lines diff_pl returns;       *)
(*   lower_gap       lower_slices, seen from the region: the distance from *)
(*                   the region to the nearest lower slice (0: they touch  *)
(*                   or overlap), or NoLower when lower_slices is empty;   *)
(*   fallback_extra  the lines the fallback sweep (over the bounding box   *)
(*                   of clip_area) clips beyond those of the primary one;  *)
(* angle is this->angle.  detected records that some detect_angle call     *)
(* returned true; last records the latest call, what it did and returned;  *)
(* first_call records what the first detect_angle call with one observed   *)
(* override returned and stored (no override is observed outside           *)
(* SpecRepeat).                                                            *)
(***************************************************************************)
EXTENDS Integers, Sequences, FiniteSets, TLC

VARIABLES expolygons, lower_gap, edges, anchor_regions, spacing, angle,
          clipped, fallback_extra, unsupported_lines,
          detected, last, first_call

vars == << expolygons, lower_gap, edges, anchor_regions, spacing, angle,
           clipped, fallback_extra, unsupported_lines,
           detected, last, first_call >>

geometry == << expolygons, lower_gap, edges, anchor_regions, spacing,
               clipped, fallback_extra, unsupported_lines >>

(***************************************************************************)
(* Program constants.                                                      *)
(***************************************************************************)
PI == 720

resolution == PI \div 90

NoAngle == -1

\* lower_slices is empty
NoLower == -1

MaxCandidates == 200

MeanSample == 200

(***************************************************************************)
(* Helpers.                                                                *)
(***************************************************************************)
Abs(x) == IF x < 0 THEN -x ELSE x

Max(a, b) == IF a > b THEN a ELSE b

\* The loops below run over up to several hundred elements; they are
\* written as folds that split the index range in two, so that the depth
\* of evaluation stays logarithmic.  Fold(acc, lo, hi) applies the loop
\* body to the elements lo .. hi in order; the left half is evaluated (its
\* length or value is looked at) before the right half starts from it.

\* the position of the highest bit of n (std::__lg)
Lg(n) == IF n <= 1 THEN 0 ELSE CHOOSE k \in 1 .. 30 : n \div 2^k = 1

Pow2(n) == 2^n

\* (float)x for an integer x >= 0: the nearest value with a significand of
\* 24 bits, a tie going to the even significand.
FloatRound(x) ==
    IF x < Pow2(24) THEN x
    ELSE LET q    == Pow2(Lg(x) - 23)
             low  == (x \div q) * q
             rest == x - low
         IN  IF 2 * rest < q \/ (2 * rest = q /\ (x \div q) % 2 = 0)
             THEN low ELSE low + q

\* mean_sqr_size += (float)distance_to_square for lines[lo .. hi], in this
\* order, each sum rounded to float
RECURSIVE FloatSumFrom(_, _, _, _)
FloatSumFrom(mean_sqr_size, lines, lo, hi) ==
    IF lo > hi THEN mean_sqr_size
    ELSE IF lo = hi
         THEN FloatRound(mean_sqr_size + FloatRound(lines[lo].sqlen))
    ELSE LET mid == (lo + hi) \div 2
             Rest(left) == IF left < 0 THEN left
                           ELSE FloatSumFrom(left, lines, mid + 1, hi)
         IN  Rest(FloatSumFrom(mean_sqr_size, lines, lo, mid))

\* float mean_sqr_size after the loop over lines[lo .. hi] (lines 358-362)
SumSqLen(lines, lo, hi) == FloatSumFrom(0, lines, lo, hi)

\* dist_sqr > mean_sqr_size after mean_sqr_size /= n, for the float
\* dist_sqr and the float sum: the quotient sum / n is rounded to float, so
\* it is below dist_sqr when it lies below the middle between dist_sqr and
\* the float before it, or on that middle with the even significand below.
LongerThanMean(dist_sqr, sum, n) ==
    LET e    == Lg(dist_sqr)
        h    == IF dist_sqr = Pow2(e) THEN e - 25 ELSE e - 24
        a    == sum \div n
        r    == sum % n
        odd  == e >= 23 /\ (dist_sqr \div Pow2(e - 23)) % 2 = 1
        far  == -h > Lg(n)
        frac == n * (Pow2(-h) - 1)
    IN  IF dist_sqr = 0 THEN FALSE
        ELSE IF h >= 0
        THEN \/ a < dist_sqr - Pow2(h)
             \/ a = dist_sqr - Pow2(h) /\ r = 0 /\ odd
        ELSE \/ a < dist_sqr - 1
             \/ /\ a = dist_sqr - 1
                /\ \/ far
                   \/ r * Pow2(-h) < frac
                   \/ r * Pow2(-h) = frac /\ odd

\* Geometry::directions_parallel(angle1, angle2, max_diff): the two
\* directions are equal modulo PI within max_diff.
directions_parallel(angle1, angle2, max_diff) ==
    LET d == Abs(angle1 - angle2) % PI
    IN  d <= max_diff \/ PI - d <= max_diff

\* BridgeDirection(a, along_perimeter): the accumulators start at zero.
\* coverage is the score; after scoring it is a record (see Score).
BridgeDirection(a, along_perimeter) ==
    [angle |-> a, along_perimeter_length |-> along_perimeter,
     total_length_anchored |-> 0, total_length_free |-> 0,
     max_length_anchored |-> 0, max_length_free |-> 0,
     median_length_anchor |-> 0,
     nb_lines_anchored |-> 0, nb_lines_free |-> 0,
     coverage |-> 0]

(***************************************************************************)
(* bridge_direction_candidates(only_from_polygon)                          *)
(***************************************************************************)
\* for (int i = 0; i <= PI/resolution; ++i) angles.emplace_back(i * resolution)
UniformAngles ==
    [i \in 1 .. (PI \div resolution) + 1 |->
        BridgeDirection((i - 1) * resolution, 0)]

\* The sampled angles whatever only_from_polygon says
SampledAnglesAlways(only_from_polygon) == UniformAngles

\* if (!only_from_polygon): the sampled angles are left out on request.
SampledAngles(only_from_polygon) ==
    IF only_from_polygon THEN << >> ELSE UniformAngles

\* The candidates of the region's boundary lines; above MeanSample lines
\* only those longer than the mean of the first MeanSample ones.  The
\* squared length is stored as a float.
PerimeterAngles(lines) ==
    LET all == [i \in 1 .. Len(lines) |->
                    BridgeDirection(lines[i].direction, FloatRound(lines[i].sqlen))]
        LongerThan(sum) ==
            SelectSeq(all, LAMBDA c :
                LongerThanMean(c.along_perimeter_length, sum, MeanSample))
    IN  IF Len(lines) > MeanSample
        THEN LongerThan(SumSqLen(lines, 1, MeanSample))
        ELSE all

\* One candidate for each supporting edge with first_point != last_point;
\* the constructor leaves along_perimeter_length at 0.
EdgeAngles(es) ==
    LET open == SelectSeq(es, LAMBDA e : e.open)
    IN  [i \in 1 .. Len(open) |-> BridgeDirection(open[i].direction, 0)]

\* std::sort(angles.begin(), angles.end(), comp) with the comparison
\* bt1.angle < bt2.angle.  Candidates of equal angle are left in the order
\* the library's algorithm puts them in: an introsort (median-of-three
\* quicksort down to ranges of 16 elements, heapsort when the depth limit
\* 2 * lg(n) is used up) followed by an insertion sort.  Positions are
\* 1-based; a range is first .. stop - 1 (stop is the library's last), as with the library's iterators.
AngleLess(bt1, bt2) == bt1.angle < bt2.angle

IterSwap(v, a, b) == [v EXCEPT ![a] = v[b], ![b] = v[a]]

\* for (i = lo; i <= hi; ++i) v = Body(v, i), split in two halves
RECURSIVE ForRange(_, _, _, _)
ForRange(Body(_, _), v, lo, hi) ==
    IF lo > hi THEN v
    ELSE IF lo = hi THEN Body(v, lo)
    ELSE LET mid == (lo + hi) \div 2
             Rest(left) == IF Len(left) = 0 THEN left
                           ELSE ForRange(Body, left, mid + 1, hi)
         IN  Rest(ForRange(Body, v, lo, mid))

\* the median of v[a], v[b], v[c] is swapped to v[result]
MoveMedianToFirst(v, result, a, b, c) ==
    IF AngleLess(v[a], v[b])
    THEN IF AngleLess(v[b], v[c]) THEN IterSwap(v, result, b)
         ELSE IF AngleLess(v[a], v[c]) THEN IterSwap(v, result, c)
         ELSE IterSwap(v, result, a)
    ELSE IF AngleLess(v[a], v[c]) THEN IterSwap(v, result, a)
    ELSE IF AngleLess(v[b], v[c]) THEN IterSwap(v, result, c)
    ELSE IterSwap(v, result, b)

\* while (comp(first, pivot)) ++first;
ScanUp(v, first, pivot) ==
    first + (CHOOSE d \in 0 .. Len(v) - first :
                /\ ~AngleLess(v[first + d], v[pivot])
                /\ \A e \in 0 .. d - 1 : AngleLess(v[first + e], v[pivot]))

\* while (comp(pivot, stop)) --stop;
ScanDown(v, stop, pivot) ==
    stop - (CHOOSE d \in 0 .. stop - 1 :
                /\ ~AngleLess(v[pivot], v[stop - d])
                /\ \A e \in 0 .. d - 1 : AngleLess(v[pivot], v[stop - e]))

\* One round of the loop of __unguarded_partition on the range left to
\* look at; cut is 0 until the loop returns.
PartitionStep(s, pivot) ==
    LET Swap(f, l) ==
            IF ~(f < l) THEN [s EXCEPT !.cut = f]
            ELSE [v |-> IterSwap(s.v, f, l), first |-> f + 1, stop |-> l, cut |-> 0]
    IN  Swap(ScanUp(s.v, s.first, pivot), ScanDown(s.v, s.stop - 1, pivot))

\* up to 2^k rounds of that loop
RECURSIVE PartitionRounds(_, _, _)
PartitionRounds(s, pivot, k) ==
    IF s.cut # 0 THEN s
    ELSE IF k = 0 THEN PartitionStep(s, pivot)
    ELSE PartitionRounds(PartitionRounds(s, pivot, k - 1), pivot, k - 1)

\* __unguarded_partition(first, stop, pivot): the array and the cut
UnguardedPartition(v, first, stop, pivot) ==
    PartitionRounds([v |-> v, first |-> first, stop |-> stop, cut |-> 0],
                    pivot, Lg(stop - first) + 1)

\* __push_heap(first, holeIndex, topIndex, value)
RECURSIVE PushHeap(_, _, _, _, _)
PushHeap(v, first, hole, top, value) ==
    IF hole > top /\ AngleLess(v[first + (hole - 1) \div 2], value)
    THEN PushHeap([v EXCEPT ![first + hole] = v[first + (hole - 1) \div 2]],
                  first, (hole - 1) \div 2, top, value)
    ELSE [v EXCEPT ![first + hole] = value]

\* the first loop of __adjust_heap: the hole moves down to the larger child
RECURSIVE SiftDown(_, _, _, _)
SiftDown(v, first, hole, len) ==
    IF hole < (len - 1) \div 2
    THEN LET right == 2 * (hole + 1)
             child == IF AngleLess(v[first + right], v[first + right - 1])
                      THEN right - 1 ELSE right
         IN  SiftDown([v EXCEPT ![first + hole] = v[first + child]],
                      first, child, len)
    ELSE [v |-> v, hole |-> hole]

\* __adjust_heap(first, holeIndex, len, value)
AdjustHeap(v, first, hole, len, value) ==
    LET Push(down) ==
            IF len % 2 = 0 /\ down.hole = (len - 2) \div 2
            THEN PushHeap([down.v EXCEPT ![first + down.hole] =
                                down.v[first + 2 * (down.hole + 1) - 1]],
                          first, 2 * (down.hole + 1) - 1, hole, value)
            ELSE PushHeap(down.v, first, down.hole, hole, value)
    IN  Push(SiftDown(v, first, hole, len))

\* __partial_sort(first, stop, stop): __make_heap, then __sort_heap
HeapSort(v, first, stop) ==
    LET len == stop - first
        top == (len - 2) \div 2
        MakeHeap(w) ==
            ForRange(LAMBDA h, k :
                        AdjustHeap(h, first, top - k, len, h[first + top - k]),
                     w, 0, top)
        SortHeap(w) ==
            IF Len(w) = 0 THEN w
            ELSE ForRange(LAMBDA h, k :
                             AdjustHeap([h EXCEPT ![stop - k] = h[first]], first, 0,
                                        stop - k - first, h[stop - k]),
                          w, 1, len - 1)
    IN  SortHeap(MakeHeap(v))

\* __introsort_loop(first, stop, depth_limit)
RECURSIVE IntrosortLoop(_, _, _, _)
IntrosortLoop(v, first, stop, depth_limit) ==
    IF stop - first > 16
    THEN IF depth_limit = 0 THEN HeapSort(v, first, stop)
         ELSE LET mid == first + (stop - first) \div 2
                  Rest(right, cut) ==
                      IF Len(right) = 0 THEN right
                      ELSE IntrosortLoop(right, first, cut, depth_limit - 1)
                  Loop(part) ==
                      Rest(IntrosortLoop(part.v, part.cut, stop, depth_limit - 1),
                           part.cut)
              IN  Loop(UnguardedPartition(
                          MoveMedianToFirst(v, first, first + 1, mid, stop - 1),
                          first + 1, stop, first))
    ELSE v

\* __unguarded_linear_insert(stop) for the value taken from there
RECURSIVE UnguardedLinearInsert(_, _, _)
UnguardedLinearInsert(v, stop, val) ==
    IF AngleLess(val, v[stop - 1])
    THEN UnguardedLinearInsert([v EXCEPT ![stop] = v[stop - 1]], stop - 1, val)
    ELSE [v EXCEPT ![stop] = val]

\* __insertion_sort(first, stop)
InsertionSort(v, first, stop) ==
    ForRange(LAMBDA w, i :
                IF AngleLess(w[i], w[first])
                THEN SubSeq(w, 1, first - 1) \o << w[i] >>
                     \o SubSeq(w, first, i - 1) \o SubSeq(w, i + 1, Len(w))
                ELSE UnguardedLinearInsert(w, i, w[i]),
             v, first + 1, stop - 1)

\* __final_insertion_sort(first, stop)
FinalInsertionSort(v, first, stop) ==
    LET Rest(head) ==
            IF Len(head) = 0 THEN head
            ELSE ForRange(LAMBDA w, i : UnguardedLinearInsert(w, i, w[i]),
                          head, first + 16, stop - 1)
    IN  IF stop - first > 16
        THEN Rest(InsertionSort(v, first, first + 16))
        ELSE InsertionSort(v, first, stop)

\* std::sort over the whole vector
StdSort(v) ==
    LET Final(loop) ==
            IF Len(loop) = 0 THEN loop
            ELSE FinalInsertionSort(loop, 1, Len(v) + 1)
    IN  IF Len(v) = 0 THEN v
        ELSE Final(IntrosortLoop(v, 1, Len(v) + 1, 2 * Lg(Len(v))))

(***************************************************************************)
(* The polygon kernel, on polygons with sides parallel to the axes.        *)
(*                                                                         *)
(* A polygon is the sequence of its vertices; an anchor region is a        *)
(* rectangle.  The regions of the detectors below meet every vertical line *)
(* in one interval, in each of the four frames coverage() turns them to,   *)
(* so that a polygon is also a row of columns [x0, x1] x [y0, y1] from     *)
(* left to right.  The anchor regions of a detector do not touch each      *)
(* other.  Polygons come out of the kernel counter-clockwise from their    *)
(* lower left vertex, as the rectangles of get_trapezoids are built.       *)
(***************************************************************************)
Min(a, b) == IF a < b THEN a ELSE b

\* A rectangle [x0, x1] x [y0, y1].
Rect(x0, x1, y0, y1) == [x0 |-> x0, x1 |-> x1, y0 |-> y0, y1 |-> y1]

\* The rectangle as a polygon: { x0, y0 }, { x1, y0 }, { x1, y1 }, { x0, y1 }.
RectPolygon(r) ==
    << [x |-> r.x0, y |-> r.y0], [x |-> r.x1, y |-> r.y0],
       [x |-> r.x1, y |-> r.y1], [x |-> r.x0, y |-> r.y1] >>

\* offset(rectangle, d) with mitered corners.
GrowRect(r, d) == Rect(r.x0 - d, r.x1 + d, r.y0 - d, r.y1 + d)

\* A boundary line from a to b, parallel to an axis.
OutlineLine(ax, ay, bx, by) ==
    [direction |-> IF ay = by THEN 0 ELSE PI \div 2,
     sqlen |-> (bx - ax) * (bx - ax) + (by - ay) * (by - ay),
     a |-> [x |-> ax, y |-> ay], b |-> [x |-> bx, y |-> by]]

\* to_lines of a rectangular region, counter-clockwise.
RectOutline(r) ==
    << OutlineLine(r.x0, r.y0, r.x1, r.y0), OutlineLine(r.x1, r.y0, r.x1, r.y1),
       OutlineLine(r.x1, r.y1, r.x0, r.y1), OutlineLine(r.x0, r.y1, r.x0, r.y0) >>

\* The contour of a region: the first point of each boundary line.
Contour(lines) == [i \in 1 .. Len(lines) |-> lines[i].a]

\* Point::rotate(theta) about the origin, for a multiple of PI/2: the
\* rounded coordinates are exact.
RotatePoint(p, theta) ==
    CASE theta % (2 * PI) = 0 -> p
      [] theta % (2 * PI) = PI \div 2 -> [x |-> -p.y, y |-> p.x]
      [] theta % (2 * PI) = PI -> [x |-> -p.x, y |-> -p.y]
      [] theta % (2 * PI) = 3 * (PI \div 2) -> [x |-> p.y, y |-> -p.x]

\* polygon.rotate(theta) for every polygon of the list
polygons_rotate(polygons, theta) ==
    [k \in 1 .. Len(polygons) |->
        [i \in 1 .. Len(polygons[k]) |-> RotatePoint(polygons[k][i], theta)]]

\* polygons_rotate on rectangles
RotateRects(rects, theta) ==
    LET Turned(a, b) == Rect(Min(a.x, b.x), Max(a.x, b.x), Min(a.y, b.y), Max(a.y, b.y))
    IN  [k \in 1 .. Len(rects) |->
            Turned(RotatePoint([x |-> rects[k].x0, y |-> rects[k].y0], theta),
                   RotatePoint([x |-> rects[k].x1, y |-> rects[k].y1], theta))]

\* The coordinates of a set, ascending.
RECURSIVE SortedCoords(_)
SortedCoords(S) ==
    IF S = {} THEN << >>
    ELSE LET Least(m) == << m >> \o SortedCoords(S \ {m})
         IN  Least(CHOOSE c \in S : \A d \in S : c <= d)

\* The sequences of a sequence, one after the other.
RECURSIVE Flatten(_)
Flatten(seqs) ==
    IF Len(seqs) = 0 THEN << >> ELSE Head(seqs) \o Flatten(Tail(seqs))

\* The smallest and the largest of a sequence of coordinates.
MinCoord(cs) == CHOOSE c \in { cs[i] : i \in 1 .. Len(cs) } :
                    \A i \in 1 .. Len(cs) : c <= cs[i]

MaxCoord(cs) == CHOOSE c \in { cs[i] : i \in 1 .. Len(cs) } :
                    \A i \in 1 .. Len(cs) : c >= cs[i]

\* The x and the y coordinates of the vertices of a polygon.
XsOf(points) == [i \in 1 .. Len(points) |-> points[i].x]

YsOf(points) == [i \in 1 .. Len(points) |-> points[i].y]

\* The area the polygons fill (non-zero winding) between x = lo and
\* x = hi, as columns from left to right: a cell of the grid of the
\* vertices is filled when a ray from it to the right crosses more sides
\* one way than the other.
Columns(polygons, lo, hi) ==
    LET sides == UNION { { << k, i >> : i \in 1 .. Len(polygons[k]) } :
                            k \in 1 .. Len(polygons) }
        A(e) == polygons[e[1]][e[2]]
        B(e) == polygons[e[1]][(e[2] % Len(polygons[e[1]])) + 1]
        Cells(up, down, xs, ys) ==
            LET Wind(i, j) ==
                    Cardinality({ e \in up : A(e).x >= xs[i + 1]
                                    /\ A(e).y <= ys[j] /\ B(e).y >= ys[j + 1] })
                    - Cardinality({ e \in down : A(e).x >= xs[i + 1]
                                    /\ B(e).y <= ys[j] /\ A(e).y >= ys[j + 1] })
                Column(i, J) ==
                    IF J = {} THEN Rect(xs[i], xs[i + 1], 0, 0)
                    ELSE Rect(xs[i], xs[i + 1],
                              ys[CHOOSE j \in J : \A k \in J : j <= k],
                              ys[(CHOOSE j \in J : \A k \in J : j >= k) + 1])
            IN  SelectSeq([i \in 1 .. Len(xs) - 1 |->
                              Column(i, { j \in 1 .. Len(ys) - 1 : Wind(i, j) # 0 })],
                          LAMBDA c : c.y0 < c.y1)
    IN  Cells({ e \in sides : A(e).x = B(e).x /\ A(e).y < B(e).y },
              { e \in sides : A(e).x = B(e).x /\ A(e).y > B(e).y },
              SortedCoords({lo, hi} \cup { x \in { A(e).x : e \in sides } :
                                            lo < x /\ x < hi }),
              SortedCoords({ A(e).y : e \in sides }))

\* The columns gathered into the polygons they form: columns of the same
\* height join into one, a polygon ends where the next column does not
\* continue the last one.
RECURSIVE Parts(_, _, _)
Parts(columns, k, done) ==
    IF k > Len(columns) THEN done
    ELSE LET n == Len(done)
             c == columns[k]
             Same(prev) == prev.x1 = c.x0 /\ prev.y0 = c.y0 /\ prev.y1 = c.y1
             Joins(prev) == prev.x1 = c.x0
                                /\ Max(prev.y0, c.y0) < Min(prev.y1, c.y1)
         IN  Parts(columns, k + 1,
                IF n > 0 /\ Same(done[n][Len(done[n])])
                THEN [done EXCEPT ![n][Len(done[n])].x1 = c.x1]
                ELSE IF n > 0 /\ Joins(done[n][Len(done[n])])
                     THEN [done EXCEPT ![n] = Append(@, c)]
                     ELSE Append(done, << c >>))

\* The contour of a row of columns, counter-clockwise from the lower left
\* vertex: along the bottom to the right, along the top back.
Outline(part) ==
    LET n == Len(part)
        Corner(x, y) == [x |-> x, y |-> y]
        RECURSIVE Bottom(_)
        Bottom(k) ==
            IF k = n THEN << Corner(part[n].x1, part[n].y0) >>
            ELSE (IF part[k].y0 # part[k + 1].y0
                  THEN << Corner(part[k].x1, part[k].y0),
                          Corner(part[k].x1, part[k + 1].y0) >>
                  ELSE << >>) \o Bottom(k + 1)
        RECURSIVE Top(_)
        Top(k) ==
            IF k = 0 THEN << Corner(part[1].x0, part[1].y1) >>
            ELSE (IF part[k].y1 # part[k + 1].y1
                  THEN << Corner(part[k].x1, part[k + 1].y1),
                          Corner(part[k].x1, part[k].y1) >>
                  ELSE << >>) \o Top(k - 1)
    IN  << Corner(part[1].x0, part[1].y0) >> \o Bottom(1)
            \o << Corner(part[n].x1, part[n].y1) >> \o Top(n - 1)

\* The polygons of a list of rows of columns.
Outlines(parts) == [k \in 1 .. Len(parts) |-> Outline(parts[k])]

\* union_(polygons)
union_(polygons) ==
    LET United(xs) ==
            Outlines(Parts(Columns(polygons, MinCoord(xs), MaxCoord(xs)), 1, << >>))
    IN  IF Len(polygons) = 0 THEN << >>
        ELSE United(Flatten([k \in 1 .. Len(polygons) |-> XsOf(polygons[k])]))

\* intersection(polygon, rectangle): the polygons of the common area.
intersection(polygon, r) ==
    LET Cut(columns) ==
            SelectSeq([k \in 1 .. Len(columns) |->
                          [columns[k] EXCEPT !.y0 = Max(@, r.y0), !.y1 = Min(@, r.y1)]],
                      LAMBDA c : c.y0 < c.y1)
    IN  IF r.x0 >= r.x1 \/ r.y0 >= r.y1 THEN << >>
        ELSE Outlines(Parts(Cut(Columns(<< polygon >>, r.x0, r.x1)), 1, << >>))

\* offset_ex(polygon, delta) with mitered corners, delta >= 0 given in half
\* units (delta = half / 2): every column grows by delta to each side and
\* each moved coordinate is rounded to an integer, a half away from zero
\* (7.5 to 8, 12.5 to 13, -0.5 to -1).
offset_ex(polygon, half) ==
    LET Round(v) == IF v >= 0 THEN (v + 1) \div 2 ELSE -((1 - v) \div 2)
        Grow(r) == Rect(Round(2 * r.x0 - half), Round(2 * r.x1 + half),
                        Round(2 * r.y0 - half), Round(2 * r.y1 + half))
        Grown(columns) ==
            union_([k \in 1 .. Len(columns) |-> RectPolygon(Grow(columns[k]))])
    IN  Grown(Columns(<< polygon >>, MinCoord(XsOf(polygon)), MaxCoord(XsOf(polygon))))

\* The inside portion of the segment from a to b (parallel to an axis) in
\* the rectangle r, its contour included: no piece or one piece, directed
\* as the segment.
ClipSegment(a, b, r) ==
    LET Lo(u, v, lo) == Max(IF u < v THEN u ELSE v, lo)
        Hi(u, v, hi) == IF Max(u, v) < hi THEN Max(u, v) ELSE hi
        Piece(lo, hi, u, v) == IF u <= v THEN << lo, hi >> ELSE << hi, lo >>
    IN  IF a.y = b.y
        THEN LET lo == Lo(a.x, b.x, r.x0)
                 hi == Hi(a.x, b.x, r.x1)
                 xs == Piece(lo, hi, a.x, b.x)
             IN  IF a.y < r.y0 \/ a.y > r.y1 \/ lo >= hi THEN << >>
                 ELSE << << [x |-> xs[1], y |-> a.y], [x |-> xs[2], y |-> a.y] >> >>
        ELSE LET lo == Lo(a.y, b.y, r.y0)
                 hi == Hi(a.y, b.y, r.y1)
                 ys == Piece(lo, hi, a.y, b.y)
             IN  IF a.x < r.x0 \/ a.x > r.x1 \/ lo >= hi THEN << >>
                 ELSE << << [x |-> a.x, y |-> ys[1]], [x |-> a.x, y |-> ys[2]] >> >>

\* intersection_ln(polygon.lines(), anchors): the pieces of the sides of
\* the polygon inside the anchors.
intersection_ln(polygon, anchors) ==
    Flatten([i \in 1 .. Len(polygon) |->
        Flatten([k \in 1 .. Len(anchors) |->
            ClipSegment(polygon[i], polygon[(i % Len(polygon)) + 1], anchors[k])])])

\* A square region, [0, 4] x [0, 4], and its four boundary lines.
SquareBox == Rect(0, 4, 0, 4)

Square == RectOutline(SquareBox)

\* The supporting edges of the detectors of Init: none, or one open edge
\* at angle 0.
EdgeChoices == { << >>, << [open |-> TRUE, direction |-> 0] >> }

\* The lists the detectors of Init hand to std::sort, each with its sorted
\* list: they are the same in every state and are sorted once.
SortedOnce ==
    { << v, StdSort(v) >> :
        v \in { UniformAngles \o PerimeterAngles(Square) \o EdgeAngles(es) :
                    es \in EdgeChoices } }

\* std::sort(angles.begin(), angles.end(), by angle)
SortAngles(angles) ==
    IF \E p \in SortedOnce : p[1] = angles
    THEN (CHOOSE p \in SortedOnce : p[1] = angles)[2]
    ELSE StdSort(angles)

\* First loop: delete the sampled angles too close to a perimeter angle.
\* kept is angles[0 .. i-1] of the source and next is angles[i]: erasing
\* angles[i] leaves kept as it is, erasing angles[i-1] puts next in the
\* place of the last of kept (the source does --i; continue; so next is
\* then compared with nothing before it), otherwise ++i appends next.
NearPerimeterStep(kept, next) ==
    LET prev == kept[Len(kept)]
    IN  IF /\ prev.along_perimeter_length > 0
           /\ next.along_perimeter_length = 0
           /\ directions_parallel(next.angle, prev.angle, resolution)
        THEN kept
        ELSE IF /\ next.along_perimeter_length > 0
                /\ prev.along_perimeter_length = 0
                /\ directions_parallel(next.angle, prev.angle, resolution)
             THEN Append(SubSeq(kept, 1, Len(kept) - 1), next)
        ELSE Append(kept, next)

RECURSIVE NearPerimeterFold(_, _, _, _)
NearPerimeterFold(kept, angles, lo, hi) ==
    IF lo > hi THEN kept
    ELSE IF lo = hi THEN NearPerimeterStep(kept, angles[lo])
    ELSE LET mid == (lo + hi) \div 2
             Rest(left) == IF Len(left) = 0 THEN left
                           ELSE NearPerimeterFold(left, angles, mid + 1, hi)
         IN  Rest(NearPerimeterFold(kept, angles, lo, mid))

DeleteNearPerimeter(angles) ==
    IF Len(angles) = 0 THEN angles
    ELSE NearPerimeterFold(<< angles[1] >>, angles, 2, Len(angles))

\* Second loop (and the body of the while loop): of two adjacent parallel
\* candidates keep the longest of the two.  kept and next as above.
ParallelStep(kept, next, min_resolution) ==
    LET prev == kept[Len(kept)]
    IN  IF directions_parallel(next.angle, prev.angle, min_resolution)
        THEN IF next.along_perimeter_length < prev.along_perimeter_length
             THEN kept
             ELSE Append(SubSeq(kept, 1, Len(kept) - 1), next)
        ELSE Append(kept, next)

RECURSIVE ParallelFold(_, _, _, _, _)
ParallelFold(kept, angles, lo, hi, min_resolution) ==
    IF lo > hi THEN kept
    ELSE IF lo = hi THEN ParallelStep(kept, angles[lo], min_resolution)
    ELSE LET mid == (lo + hi) \div 2
             Rest(left) == IF Len(left) = 0 THEN left
                           ELSE ParallelFold(left, angles, mid + 1, hi, min_resolution)
         IN  Rest(ParallelFold(kept, angles, lo, mid, min_resolution))

DeleteParallel(angles, min_resolution) ==
    IF Len(angles) = 0 THEN angles
    ELSE ParallelFold(<< angles[1] >>, angles, 2, Len(angles), min_resolution)

\* DeleteMore without the while loop
DeleteMoreNever(angles, min_resolution) ==
    [angles |-> angles, min_resolution |-> min_resolution]

\* while (angles.size() > 200) { min_resolution *= 2; ... }
RECURSIVE DeleteMore(_, _)
DeleteMore(angles, min_resolution) ==
    IF Len(angles) > MaxCandidates
    THEN DeleteMore(DeleteParallel(angles, min_resolution * 2), min_resolution * 2)
    ELSE [angles |-> angles, min_resolution |-> min_resolution]

\* PopParallelBack that never removes the last value
PopParallelBackNever(angles, min_resolution) == angles

\* Compare the first value with the last one and remove the last.
PopParallelBack(angles, min_resolution) ==
    IF /\ Len(angles) > 1
       /\ directions_parallel(angles[1].angle, angles[Len(angles)].angle, min_resolution)
    THEN SubSeq(angles, 1, Len(angles) - 1)
    ELSE angles

\* The whole enumeration; returns the list with the final tolerance, the
\* list as the first loop left it and the list before the last pop_back.
CandidatesWithTolerance(lines, es, only_from_polygon) ==
    LET all == SampledAngles(only_from_polygon)
                    \o PerimeterAngles(lines) \o EdgeAngles(es)
        Result(first, more) ==
            [angles |-> PopParallelBack(more.angles, more.min_resolution),
             min_resolution |-> more.min_resolution,
             near_perimeter |-> first,
             before_pop |-> more.angles]
        Second(first) ==
            Result(first, DeleteMore(DeleteParallel(first, resolution \div 8),
                                     resolution \div 8))
    IN  Second(DeleteNearPerimeter(SortAngles(all)))

bridge_direction_candidates(lines, es, only_from_polygon) ==
    CandidatesWithTolerance(lines, es, only_from_polygon).angles


(***************************************************************************)
(* detect_angle: the sweep of one candidate.                               *)
(***************************************************************************)
\* size_t(-1): the index of a point that lies in no anchor.
NoIdx == -1

\* line_a_anchor_idx < clipped_lines.size()
IdxFound(idx, nb_clipped) == idx # NoIdx /\ idx < nb_clipped

\* for (int i = 0; i < _anchor_regions.size(); ++i) { ... break; }
\* returns << line_a_anchor_idx, line_b_anchor_idx >>
RECURSIVE AnchorSearch(_, _, _, _, _, _)
AnchorSearch(line, i, nb_anchors, a_idx, b_idx, nb_clipped) ==
    IF i >= nb_anchors THEN << a_idx, b_idx >>
    ELSE LET a2 == IF i \in line.a THEN i ELSE a_idx
             b2 == IF i \in line.b THEN i ELSE b_idx
         IN  IF IdxFound(a2, nb_clipped) /\ IdxFound(b2, nb_clipped)
             THEN << a2, b2 >>
             ELSE AnchorSearch(line, i + 1, nb_anchors, a2, b2, nb_clipped)

\* good_line set as soon as one end of the line lies in an anchor
GoodLineEitherEnd(line, nb_anchors, nb_clipped, sp) ==
    line.a # {} \/ line.b # {}

\* good_line of the primary pass for one clipped line.
GoodLine(line, nb_anchors, nb_clipped, sp) ==
    LET idx       == AnchorSearch(line, 0, nb_anchors, NoIdx, NoIdx, nb_clipped)
        anchors   == 0 .. nb_anchors - 1
        \* some anchor does not contain the middle point
        by_middle == \E i \in anchors : i \notin line.mid
        \* some anchor does not contain one of the two quarter points
        by_quarter == \E i \in anchors : i \notin line.qa \/ i \notin line.qb
        good1 == by_middle
        good2 == IF ~good1 /\ line.len > sp * 10 THEN by_quarter ELSE good1
        good3 == IF ~good2 /\ line.len > sp * 40 THEN line.pieces > 1 ELSE good2
    IN  IF IdxFound(idx[1], nb_clipped) /\ IdxFound(idx[2], nb_clipped)
        THEN IF idx[1] = idx[2] THEN good3 ELSE TRUE
        ELSE FALSE

\* GoodLineFallback counting every clipped line as anchored
GoodLineFallbackAlways(line) == line.len >= 0

\* GoodLineFallback with && in the place of ||
GoodLineFallbackBothEnds(line) == line.a # {} /\ line.b # {}

\* expolygons_contain(anchors, line.a) || expolygons_contain(anchors, line.b)
GoodLineFallback(line) == line.a # {} \/ line.b # {}

\* The accumulation of one clipped line into the candidate c.
AddLine(c, len, good_line) ==
    IF good_line
    THEN [c EXCEPT !.total_length_anchored = @ + len,
                   !.max_length_anchored = Max(@, len),
                   !.nb_lines_anchored = @ + 1]
    ELSE [c EXCEPT !.total_length_free = @ + len,
                   !.max_length_free = Max(@, len),
                   !.nb_lines_free = @ + 1]

\* good[i] tells whether clipped line i is anchored; lines 1 .. i are added.
RECURSIVE AddLines(_, _, _, _)
AddLines(c, lines, good, i) ==
    IF i = 0 THEN c
    ELSE AddLine(AddLines(c, lines, good, i - 1), lines[i].len, good[i])

\* dist_anchored, sorted; the median is dist_anchored[size / 2].
MedianAnchored(lines, good) ==
    LET idx  == SelectSeq([i \in 1 .. Len(lines) |-> i], LAMBDA i : good[i])
        dist == SortSeq([k \in 1 .. Len(idx) |-> lines[idx[k]].len],
                        LAMBDA x, y : x < y)
    IN  IF Len(dist) = 0 THEN 0 ELSE dist[(Len(dist) \div 2) + 1]

\* c.total_length_anchored == 0. || c.nb_lines_anchored == 0: continue
NoAnchoredLength(c) == c.total_length_anchored = 0 \/ c.nb_lines_anchored = 0

\* One iteration of a sweep loop on candidate c with the clipped lines.
SweepCandidate(c, lines, good) ==
    LET summed == AddLines(c, lines, good, Len(lines))
    IN  IF NoAnchoredLength(summed) THEN summed
        ELSE IF \E i \in 1 .. Len(lines) : good[i]
             THEN [summed EXCEPT !.median_length_anchor = MedianAnchored(lines, good)]
             ELSE summed

\* The kernel's answer for a sweep angle depends on the angle modulo PI:
\* one list of clipped lines for the angles of [0, PI/2), one for [PI/2, PI).
AngleClasses == {0, 1}

AngleClass(a) == IF (a % PI) < PI \div 2 THEN 0 ELSE 1

\* intersection_ln(lines, clip_area) of the primary pass (lines over the
\* bounding box of the anchors) and of the fallback pass (lines over the
\* bounding box of clip_area, which contains the anchors' one).
ClippedPrimary(k) == clipped[k]

ClippedFallback(k) == clipped[k] \o fallback_extra

\* good_line of every clipped line of a sweep of the primary pass
GoodLinesPrimary(lines) ==
    [i \in 1 .. Len(lines) |->
        GoodLine(lines[i], Len(anchor_regions), Len(lines), spacing)]

GoodLinesFallback(lines) ==
    [i \in 1 .. Len(lines) |-> GoodLineFallback(lines[i])]

(***************************************************************************)
(* detect_angle: scoring and selection.                                    *)
(***************************************************************************)
\* all_median_length / all_max_length, sorted: front() and back()
MinOf(cs, field) ==
    LET all == SortSeq([i \in 1 .. Len(cs) |-> cs[i][field]], LAMBDA x, y : x < y)
    IN  all[1]

MaxOf(cs, field) ==
    LET all == SortSeq([i \in 1 .. Len(cs) |-> cs[i][field]], LAMBDA x, y : x < y)
    IN  all[Len(all)]

\* The scores are doubles.  A double of the range met here (0, or between
\* 2^-30 and 2^14) is written in base 2^14 as a sequence of 7 limbs, the
\* first one the integer part: x[1] + x[2] / 2^14 + ... + x[7] / 2^84.
\* Each operation of the source is the exact operation on such sequences
\* followed by the rounding to a significand of 53 bits.
LimbBase == Pow2(14)

Limbs == 1 .. 7

\* the limbs brought back into 0 .. LimbBase - 1, from limb k upwards
RECURSIVE CarryFrom(_, _, _)
CarryFrom(x, k, carry) ==
    IF k = 1 THEN [x EXCEPT ![1] = @ + carry]
    ELSE CarryFrom([x EXCEPT ![k] = (@ + carry) % LimbBase], k - 1,
                   (x[k] + carry) \div LimbBase)

\* round to nearest, ties to even, at the 53rd bit below the highest one;
\* sticky tells that the exact value has more bits than x holds
DoubleRound(x, sticky) ==
    LET nz == {k \in Limbs : x[k] # 0}
        \* j and ou: the limb of the last bit of the significand and the
        \* position of that bit in the limb
        RoundAt(j, ou) ==
            LET w    == x[j] * LimbBase + (IF j + 1 \in Limbs THEN x[j + 1] ELSE 0)
                unit == Pow2(ou + 14)
                half == Pow2(ou + 13)
                low  == w % unit
                rest == sticky \/ \E k \in Limbs : k > j + 1 /\ x[k] # 0
                up   == low > half \/ (low = half /\ (rest \/ (w \div unit) % 2 = 1))
            IN  IF j \notin Limbs THEN x
                ELSE CarryFrom([k \in Limbs |->
                                  IF k < j THEN x[k]
                                  ELSE IF k = j
                                       THEN x[j] - (x[j] % Pow2(ou))
                                            + (IF up THEN Pow2(ou) ELSE 0)
                                  ELSE 0], 7, 0)
        \* u: the exponent of the last bit of the significand
        RoundBit(u) == RoundAt(1 + (13 - u) \div 14, u + 14 * ((13 - u) \div 14))
        \* i0: the first limb that is not zero
        RoundFrom(i0) == RoundBit(14 * (1 - i0) + Lg(x[i0]) - 52)
    IN  IF nz = {} THEN x
        ELSE RoundFrom(CHOOSE k \in nz : \A j \in nz : k <= j)

\* double(n) of a small integer
DoubleOf(n) == [k \in Limbs |-> IF k = 1 THEN n ELSE 0]

\* the remainder of the long division a / b after k limbs of the fraction
RECURSIVE DivRem(_, _, _)
DivRem(a, b, k) ==
    IF k = 0 THEN a % b ELSE (DivRem(a, b, k - 1) * LimbBase) % b

\* double(a) / double(b) for integers 0 <= a, 0 < b
DoubleQuotient(a, b) ==
    DoubleRound([k \in Limbs |->
                    IF k = 1 THEN a \div b
                    ELSE (DivRem(a, b, k - 2) * LimbBase) \div b],
                DivRem(a, b, 6) # 0)

\* m * x for a small integer m
DoubleTimes(m, x) ==
    DoubleRound(CarryFrom([k \in Limbs |-> m * x[k]], 7, 0), FALSE)

\* x + y
DoublePlus(x, y) ==
    DoubleRound(CarryFrom([k \in Limbs |-> x[k] + y[k]], 7, 0), FALSE)

\* 1 - x for x <= 1
DoubleOneMinus(x) ==
    DoubleRound(CarryFrom([k \in Limbs |-> DoubleOf(1)[k] - x[k]], 7, 0), FALSE)

\* x > y
DoubleGreater(x, y) ==
    \E k \in Limbs : x[k] > y[k] /\ \A j \in Limbs : j < k => x[j] = y[j]

\* The fields of a candidate its score is computed from.
ScoreKey(c) ==
    [total_length_anchored |-> c.total_length_anchored,
     total_length_free |-> c.total_length_free,
     median_length_anchor |-> c.median_length_anchor,
     max_length_anchored |-> c.max_length_anchored,
     along_perimeter_length |-> IF c.along_perimeter_length > 0 THEN 1 ELSE 0]

\* c.coverage after the loop of lines 310-325: nan tells that
\* ratio_anchored is 0./0. (no clipped line at all), value is the double.
Score(c, min_median_length, max_median_length, min_max_length, max_max_length) ==
    LET s  == c.total_length_anchored + c.total_length_free
        dm == Max(1, max_median_length - min_median_length)
        dx == Max(1, max_max_length - min_max_length)
        ratio_anchored == DoubleQuotient(c.total_length_anchored, s)
        ratio_median == DoubleOneMinus(
                            DoubleQuotient(c.median_length_anchor - min_median_length, dm))
        ratio_max == DoubleOneMinus(
                            DoubleQuotient(c.max_length_anchored - min_max_length, dx))
        coverage1 == DoubleTimes(70, ratio_anchored)
        coverage2 == DoublePlus(coverage1, DoubleTimes(15, ratio_median))
        coverage3 == DoublePlus(coverage2, DoubleTimes(15, ratio_max))
    IN  [nan   |-> s = 0,
         value |-> IF s = 0 THEN DoubleOf(0)
                   ELSE IF c.along_perimeter_length > 0
                        THEN DoublePlus(coverage3, DoubleOf(5))
                   ELSE coverage3]

\* compute global stat, then the individual score of every candidate (the
\* score is worked out once for the candidates with the same ScoreKey)
ScoreAll(cs) ==
    LET Scored(scores) ==
            [i \in 1 .. Len(cs) |->
                [cs[i] EXCEPT !.coverage =
                    (CHOOSE p \in scores : p[1] = ScoreKey(cs[i]))[2]]]
        Stat(min_median_length, max_median_length, min_max_length, max_max_length) ==
            Scored({ << k, Score(k, min_median_length, max_median_length,
                                    min_max_length, max_max_length) >> :
                        k \in {ScoreKey(cs[i]) : i \in 1 .. Len(cs)} })
    IN  Stat(MinOf(cs, "median_length_anchor"), MaxOf(cs, "median_length_anchor"),
             MinOf(cs, "max_length_anchored"), MaxOf(cs, "max_length_anchored"))

\* x > y on two scores; false when one is NaN.
CoverageGreater(x, y) ==
    ~x.nan /\ ~y.nan /\ DoubleGreater(x.value, y.value)

\* i_best = 0; for i = 1 ..: if (coverage[i] > coverage[i_best]) i_best = i;
\* positions are 1-based here: BestFold runs the loop body for lo .. hi.
RECURSIVE BestFold(_, _, _, _)
BestFold(cs, i_best, lo, hi) ==
    IF lo > hi THEN i_best
    ELSE IF lo = hi
         THEN IF CoverageGreater(cs[lo].coverage, cs[i_best].coverage)
              THEN lo ELSE i_best
    ELSE LET mid == (lo + hi) \div 2
             Rest(left) == IF left = 0 THEN left
                           ELSE BestFold(cs, left, mid + 1, hi)
         IN  Rest(BestFold(cs, i_best, lo, mid))

BestIndex(cs) == BestFold(cs, 1, 2, Len(cs))

\* if (this->angle >= PI) this->angle -= PI;
StoredAngle(a) == IF a >= PI THEN a - PI ELSE a

\* HaveCoverage requiring anchored length of every candidate
HaveCoverageAll(cs) == \A i \in 1 .. Len(cs) : ~NoAnchoredLength(cs[i])

\* have_coverage kept from an earlier call (a flag that is never reset)
HaveCoverageSticky(cs) ==
    detected \/ \E i \in 1 .. Len(cs) : ~NoAnchoredLength(cs[i])

\* have_coverage after a sweep loop over cs
HaveCoverage(cs) == \E i \in 1 .. Len(cs) : ~NoAnchoredLength(cs[i])

\* The fallback pass run after every primary pass
FallbackRunsAlways(cs) == TRUE

\* if (!have_coverage) after the sweep loop of the primary pass over cs
FallbackRuns(cs) == ~HaveCoverage(cs)

\* NoAnchors with && in the place of ||
NoAnchorsBoth == Len(edges) = 0 /\ Len(anchor_regions) = 0

\* if (this->_edges.empty() || this->_anchor_regions.empty()) return false;
NoAnchors == Len(edges) = 0 \/ Len(anchor_regions) = 0

\* The candidates of the primary pass.
PrimaryCandidates(bridge_direction_override) ==
    IF bridge_direction_override = 0
    THEN bridge_direction_candidates(expolygons, edges, FALSE)
    ELSE << BridgeDirection(bridge_direction_override, 0) >>

\* FallbackCandidates without the test of the override
FallbackCandidatesEnumerated(bridge_direction_override, candidates) ==
    bridge_direction_candidates(expolygons, edges, TRUE)

\* The candidates of the fallback pass: a new enumeration, or the override
\* appended (emplace_back) to the list the primary pass has swept.
FallbackCandidates(bridge_direction_override, candidates) ==
    IF bridge_direction_override = 0
    THEN bridge_direction_candidates(expolygons, edges, TRUE)
    ELSE Append(candidates, BridgeDirection(bridge_direction_override, 0))

\* detect_angle(bridge_direction_override) on the current detector.
\* ret and angle are the return value and this->angle after the call; the
\* other fields record what the call did: the number of calls of
\* bridge_direction_candidates, the candidate list after each sweep loop
\* (the fallback one is the scored list when the fallback loop ran, the
\* primary one otherwise), the coverage given to each scored candidate and
\* the selected position (1-based; 0: none).
detect_angle(bridge_direction_override) ==
    IF NoAnchors
    THEN [ret |-> FALSE, angle |-> angle, enumerations |-> 0,
          primary |-> << >>, fallback_ran |-> FALSE, fallback |-> << >>,
          coverage |-> << >>, i_best |-> 0]
    ELSE
    LET good1 == [k \in AngleClasses |-> GoodLinesPrimary(ClippedPrimary(k))]
        good2 == [k \in AngleClasses |-> GoodLinesFallback(ClippedFallback(k))]
        \* the sweep loop of the primary pass over candidates1
        SweepPrimary(candidates1) ==
            [i \in 1 .. Len(candidates1) |->
                LET k == AngleClass(candidates1[i].angle)
                IN  SweepCandidate(candidates1[i], ClippedPrimary(k), good1[k])]
        \* the sweep loop of the fallback pass over candidates2
        SweepFallback(candidates2) ==
            [i \in 1 .. Len(candidates2) |->
                LET k == AngleClass(candidates2[i].angle)
                IN  SweepCandidate(candidates2[i], ClippedFallback(k), good2[k])]
        Selected(primary, have_coverage1, fallback, have_coverage, scored, i_best) ==
            [ret      |-> have_coverage,
             angle    |-> IF have_coverage THEN StoredAngle(scored[i_best].angle)
                          ELSE angle,
             enumerations |-> IF bridge_direction_override # 0 THEN 0
                              ELSE IF have_coverage1 THEN 1 ELSE 2,
             primary  |-> primary,
             fallback_ran |-> ~have_coverage1,
             fallback |-> IF have_coverage1 THEN << >> ELSE fallback,
             coverage |-> IF have_coverage
                          THEN [i \in 1 .. Len(scored) |-> scored[i].coverage]
                          ELSE << >>,
             i_best   |-> IF have_coverage THEN i_best ELSE 0]
        WithScores(primary, have_coverage1, fallback, have_coverage, scored) ==
            Selected(primary, have_coverage1, fallback, have_coverage, scored,
                     BestIndex(scored))
        Swept(primary, have_coverage1, fallback) ==
            WithScores(primary, have_coverage1, fallback,
                   have_coverage1 \/ HaveCoverage(fallback),
                   ScoreAll(IF have_coverage1 THEN primary ELSE fallback))
        Primary(primary) ==
            Swept(primary, ~FallbackRuns(primary),
                  SweepFallback(FallbackCandidates(bridge_direction_override, primary)))
    IN  Primary(SweepPrimary(PrimaryCandidates(bridge_direction_override)))

(***************************************************************************)
(* coverage(angle, precise) and unsupported_edges(angle)                   *)
(***************************************************************************)
\* if (angle == -1) angle = this->angle;
DefaultAngle(a) == IF a = NoAngle THEN angle ELSE a

\* Division of coord_t values: the quotient is truncated towards zero.
TruncDiv(a, b) == IF a >= 0 THEN a \div b ELSE -((-a) \div b)

\* get_trapezoids2(expoly): one rectangle from each x coordinate of the
\* polygon to the next larger one, over the height of the bounding box,
\* intersected with the polygon.  (The caller's angle PI/2 turns the
\* polygon by 0 and back.)
get_trapezoids2(expoly) ==
    LET Between(xx, min_y, max_y) ==
            Flatten([i \in 1 .. Len(xx) - 1 |->
                        intersection(expoly, Rect(xx[i], xx[i + 1], min_y, max_y))])
    IN  Between(SortedCoords({ expoly[i].x : i \in 1 .. Len(expoly) }),
                MinCoord(YsOf(expoly)), MaxCoord(YsOf(expoly)))

\* get_trapezoids3_half, the x coordinates xx: from min_x in steps of
\* spacing while x < max_x - spacing / 2, then max_x.
RECURSIVE StripXs(_, _, _)
StripXs(x, max_x, sp) ==
    IF x < max_x - TruncDiv(sp, 2)
    THEN << x >> \o StripXs(x + sp, max_x, sp)
    ELSE << max_x >>

\* get_trapezoids3_half, the rectangles built between consecutive x
\* coordinates: from *x + spacing / 4 to next_x - spacing / 4.
StripRectangles(min_x, max_x, sp) ==
    LET xx == StripXs(min_x, max_x, sp)
        kept == SelectSeq([i \in 1 .. Len(xx) - 1 |-> i],
                          LAMBDA i : xx[i] # xx[i + 1])
    IN  [k \in 1 .. Len(kept) |->
            [lo |-> xx[kept[k]] + TruncDiv(sp, 4),
             hi |-> xx[kept[k] + 1] - TruncDiv(sp, 4)]]

\* get_trapezoids3_half(expoly, spacing): each rectangle over the height of
\* the bounding box, intersected with the polygon.
get_trapezoids3_half(expoly, sp) ==
    LET Strips(rects, min_y, max_y) ==
            Flatten([k \in 1 .. Len(rects) |->
                        intersection(expoly, Rect(rects[k].lo, rects[k].hi, min_y, max_y))])
    IN  IF Len(expoly) = 0 THEN << >>
        ELSE Strips(StripRectangles(MinCoord(XsOf(expoly)), MaxCoord(XsOf(expoly)), sp),
                    MinCoord(YsOf(expoly)), MaxCoord(YsOf(expoly)))

\* n_supported of one trapezoid: the supported lines at least spacing long,
\* or (precise) the number of polygons of the intersection with the anchors,
\* with the y of the center of the bounding box of each.
SupportedCount(trapezoid, anchors, sp, precise) ==
    LET Length(line) == Abs(line[2].x - line[1].x) + Abs(line[2].y - line[1].y)
        Long(lines) ==
            Cardinality({ k \in 1 .. Len(lines) : Length(lines[k]) >= sp })
        Centers(intersects) ==
            [k \in 1 .. Len(intersects) |->
                TruncDiv(MinCoord(YsOf(intersects[k])) + MaxCoord(YsOf(intersects[k])), 2)]
        Counted(intersects) ==
            [points |-> trapezoid, n_supported |-> Len(intersects),
             centers |-> Centers(intersects)]
    IN  IF precise
        THEN Counted(Flatten([k \in 1 .. Len(anchors) |->
                                intersection(trapezoid, anchors[k])]))
        ELSE [points |-> trapezoid,
              n_supported |-> Long(intersection_ln(trapezoid, anchors)),
              centers |-> << >>]

\* IsCovered without the threshold of two supports
IsCoveredAlways(trapezoid) == trapezoid.n_supported >= 0

\* if (n_supported >= 2) covered.push_back(trapezoid)
IsCovered(trapezoid) == trapezoid.n_supported >= 2

\* The trimming of a precise trapezoid with two supports or more: y is
\* clamped between the centers of the intersections with the anchors, the
\* x-extent is widened by spacing / 4 + 1 on both sides and every vertex
\* strictly inside a half of it moves to that half's outer side.
SnapTrapezoid(trapezoid, sp) ==
    LET min_y == MinCoord(trapezoid.centers)
        max_y == MaxCoord(trapezoid.centers)
        xs    == XsOf(trapezoid.points)
        min_x == MinCoord(xs) - (TruncDiv(sp, 4) + 1)
        max_x == MaxCoord(xs) + (TruncDiv(sp, 4) + 1)
        mid_x == TruncDiv(min_x + max_x, 2)
        ClampY(y) == IF y < min_y THEN min_y ELSE IF y > max_y THEN max_y ELSE y
        MoveX(x)  == IF x > min_x /\ x < mid_x THEN min_x
                     ELSE IF x < max_x /\ x > mid_x THEN max_x ELSE x
    IN  [i \in 1 .. Len(trapezoid.points) |->
            [x |-> MoveX(trapezoid.points[i].x),
             y |-> ClampY(trapezoid.points[i].y)]]

\* The body of coverage() for an angle other than -1, theta = PI/2 - angle.
\* The region grows by 0.5f * float(spacing), spacing half units; for an
\* odd spacing the polygon kernel rounds the moved coordinates, a half away
\* from zero.
\* covered holds, for every trapezoid pushed, its points, the centers of
\* its intersections with the anchors and the polygon pushed (trimmed in
\* precise mode); polygons is the value returned, union_(covered) turned
\* back by -theta.
covered_polygons(region, anchor_rects, sp, theta, precise) ==
    LET Measured(trapezoids, anchors) ==
            SelectSeq([k \in 1 .. Len(trapezoids) |->
                          SupportedCount(trapezoids[k], anchors, sp, precise)],
                      IsCovered)
        Trapezoids(expoly) ==
            IF precise THEN get_trapezoids3_half(expoly, sp)
            ELSE get_trapezoids2(expoly)
        Pushed(kept) ==
            SelectSeq([k \in 1 .. Len(kept) |->
                          [points |-> kept[k].points, centers |-> kept[k].centers,
                           pushed |-> IF precise /\ kept[k].n_supported >= 2
                                      THEN SnapTrapezoid(kept[k], sp)
                                      ELSE kept[k].points]],
                      LAMBDA t : TRUE)
        Returned(covered) ==
            [covered |-> covered,
             polygons |-> polygons_rotate(
                            union_([k \in 1 .. Len(covered) |-> covered[k].pushed]),
                            -theta)]
        Each(grown) ==
            Returned(Pushed(Measured(
                Flatten([k \in 1 .. Len(grown) |-> Trapezoids(grown[k])]),
                RotateRects(anchor_rects, theta))))
    IN  Each(offset_ex(polygons_rotate(<< region >>, theta)[1], sp))

\* coverage(angle, precise): nothing when no angle is given or stored.
coverage(a, precise) ==
    IF DefaultAngle(a) = NoAngle THEN [covered |-> << >>, polygons |-> << >>]
    ELSE covered_polygons(Contour(expolygons), anchor_regions, spacing,
                          PI \div 2 - DefaultAngle(a), precise)

\* unsupported->emplace_back(Polyline()) and its two points line.a, line.b
PolylineOf(d) == [points |-> << "a", "b" >>, direction |-> d]

PolylinesOf(ds) == [i \in 1 .. Len(ds) |-> PolylineOf(ds[i])]

\* unsupported_edges without "if (angle == -1) return;"
unsupported_edges_unchecked(a) ==
    PolylinesOf(SelectSeq(unsupported_lines,
                    LAMBDA d : ~directions_parallel(d, DefaultAngle(a), 0)))

\* unsupported_edges without the test of the direction
unsupported_edges_unfiltered(a) ==
    IF DefaultAngle(a) = NoAngle THEN << >>
    ELSE PolylinesOf(unsupported_lines)

\* The unsupported lines not parallel to the angle, each a two-point polyline.
unsupported_edges(a) ==
    IF DefaultAngle(a) = NoAngle THEN << >>
    ELSE PolylinesOf(SelectSeq(unsupported_lines,
                        LAMBDA d : ~directions_parallel(d, DefaultAngle(a), 0)))

(***************************************************************************)
(* Bounds and the detectors the model is checked on.                       *)
(***************************************************************************)
\* the largest number of anchor regions
MaxAnchors == 2

\* the largest number of clipped lines of a sweep at an angle of [0, PI/2),
\* before fallback_extra
MaxSegs == 2

\* the largest number of boundary lines of the region in SpecCandidates
MaxLines == 2

Spacings == {1}

\* override values: none, PI/2, -PI, 2 PI + PI/2
Overrides == {0, PI \div 2, -PI, 2 * PI + PI \div 2}

\* angle arguments of coverage and unsupported_edges
AngleArgs == {NoAngle, PI \div 2}

\* n boundary lines turning by stride; the first MeanSample ones are short
\* (short_head) or all have the same length.
BigRegion(n, stride, short_head) ==
    [i \in 1 .. n |->
        [direction |-> (stride * (i - 1)) % PI,
         sqlen |-> IF short_head /\ i <= MeanSample THEN 1 ELSE 4]]

\* A region bounded by stair steps: more than MeanSample boundary lines of
\* the same length, alternately at 0 and at PI/2.
Staircase == BigRegion(MeanSample + 1, PI \div 2, FALSE)

\* A clipped line: len, the anchors containing a, b, the middle point and
\* the two quarter points, and the pieces of intersection_ln(line, anchors).
ClippedLine(len, a, b, mid, qa, qb, pieces) ==
    [len |-> len, a |-> a, b |-> b, mid |-> mid, qa |-> qa, qb |-> qb,
     pieces |-> pieces]

\* The clipped lines a sweep is drawn from, for n anchor regions: a line
\* with no end in an anchor, one with one end in anchor 0, one from anchor
\* 0 over the void to anchor n-1, one lying inside anchor n-1.
LineCatalog(n, sp) ==
    IF n = 0
    THEN << ClippedLine(6 * sp, {}, {}, {}, {}, {}, 0) >>
    ELSE << ClippedLine(6 * sp, {}, {}, {}, {}, {}, 0),
            ClippedLine(3 * sp, {0}, {}, {}, {0}, {}, 1),
            ClippedLine(4 * sp, {0}, {n - 1}, {}, {0}, {n - 1}, 2),
            ClippedLine(2 * sp, {n - 1}, {n - 1}, {n - 1}, {n - 1}, {n - 1}, 1) >>

\* The lines of cat at the positions in I, in the order of cat.
Pick(cat, I) ==
    LET idx == SelectSeq([i \in 1 .. Len(cat) |-> i], LAMBDA i : i \in I)
    IN  [k \in 1 .. Len(idx) |-> cat[idx[k]]]

Sweeps(cat, max) ==
    { Pick(cat, I) : I \in {J \in SUBSET (1 .. Len(cat)) : Cardinality(J) <= max} }

\* The sweeps at an angle of [PI/2, PI): the region is narrow in that
\* direction, no line or a single line crosses it.
NarrowSweeps(cat) == { << >> } \cup { << cat[i] >> : i \in 1 .. Len(cat) }

\* _anchor_regions of a rectangular region r whose lower slices lie at the
\* distance gap below it, above it and at its left: the first n of the
\* parts of the region grown by spacing that the lower slices cover.
MarginAnchors(r, n, sp, gap) ==
    SubSeq(<< Rect(r.x0 - sp, r.x1 + sp, r.y0 - sp, r.y0 - gap),
              Rect(r.x0 - sp, r.x1 + sp, r.y1 + gap, r.y1 + sp),
              Rect(r.x0 - sp, r.x0 - gap, r.y0 + 1, r.y1 - 1) >>, 1, n)

\* first_call observes the calls of detect_angle with one override: once
\* such a call has been made it holds what the first one returned and the
\* angle it left stored, for the comparison with the later ones.
\* Unobserved: no override is observed.
Unobserved ==
    [override |-> NoAngle, called |-> FALSE, ret |-> FALSE, angle |-> NoAngle]

Observing(o) == [Unobserved EXCEPT !.override = o]

Observe(first, o, ret, stored) ==
    IF first.called \/ first.override # o THEN first
    ELSE [override |-> o, called |-> TRUE, ret |-> ret, angle |-> stored]

\* The state after the constructor: initialize() sets angle to -1.
\* A detector without supporting edges has the same clipped lines at every
\* angle; without anchors no end point lies in an anchor.  The lines of the
\* fallback pass cover the whole of clip_area: they are the lines of the
\* primary pass and one more, with no end or with one end in an anchor.
Init ==
    /\ expolygons = Square
    /\ spacing \in Spacings
    /\ anchor_regions \in { MarginAnchors(SquareBox, n, spacing, 0) : n \in 0 .. MaxAnchors }
    /\ edges \in EdgeChoices
    /\ clipped \in
         LET sweeps == Sweeps(LineCatalog(Len(anchor_regions), spacing), MaxSegs)
         IN  IF edges = << >>
             THEN { [k \in AngleClasses |-> s] : s \in sweeps }
             ELSE { [k \in AngleClasses |-> IF k = 0 THEN s ELSE t] :
                        s \in sweeps,
                        t \in NarrowSweeps(LineCatalog(Len(anchor_regions), spacing)) }
    /\ fallback_extra \in
            LET cat == LineCatalog(Len(anchor_regions), spacing)
            IN  IF edges = << >> \/ Len(anchor_regions) = 0
                THEN { << cat[1] >> }
                ELSE { << cat[1] >>, << cat[2] >> }
    /\ lower_gap = (IF Len(anchor_regions) > 0 THEN 0
                    ELSE IF edges # << >> THEN spacing ELSE NoLower)
    /\ unsupported_lines = << 0, PI \div 2, PI \div 4 >>
    /\ angle = NoAngle
    /\ detected = FALSE
    /\ last = [op |-> "initialize"]
    /\ first_call = Unobserved

(***************************************************************************)
(* The operations.                                                         *)
(***************************************************************************)
\* detect_angle that resets the stored angle when it returns false
DetectAngleResetting(bridge_direction_override) ==
    /\ last' = [op |-> "detect_angle", override |-> bridge_direction_override]
                 @@ detect_angle(bridge_direction_override)
    /\ angle' = (IF last'.ret THEN last'.angle ELSE NoAngle)
    /\ detected' = (detected \/ last'.ret)
    /\ first_call' = Observe(first_call, bridge_direction_override, last'.ret, angle')
    /\ UNCHANGED geometry

\* last records the call and what it did and returned.
DetectAngle(bridge_direction_override) ==
    /\ last' = [op |-> "detect_angle", override |-> bridge_direction_override]
                 @@ detect_angle(bridge_direction_override)
    /\ angle' = last'.angle
    /\ detected' = (detected \/ last'.ret)
    /\ first_call' = Observe(first_call, bridge_direction_override, last'.ret, angle')
    /\ UNCHANGED geometry

\* coverage() that stores the angle it worked with
CoverageStoring(a, precise) ==
    /\ last' = [op |-> "coverage", arg |-> a, precise |-> precise]
                 @@ coverage(a, precise)
    /\ angle' = DefaultAngle(a)
    /\ UNCHANGED << detected, first_call, geometry >>

\* coverage() is const: the local copy of the angle is all it assigns.
Coverage(a, precise) ==
    /\ last' = [op |-> "coverage", arg |-> a, precise |-> precise]
                 @@ coverage(a, precise)
    /\ UNCHANGED << angle, detected, first_call, geometry >>

UnsupportedEdges(a) ==
    /\ last' = [op |-> "unsupported_edges", arg |-> a,
                unsupported |-> unsupported_edges(a)]
    /\ UNCHANGED << angle, detected, first_call, geometry >>

Next ==
    \/ \E o \in Overrides : DetectAngle(o)
    \/ \E a \in AngleArgs, precise \in BOOLEAN : Coverage(a, precise)
    \/ \E a \in AngleArgs : UnsupportedEdges(a)

Spec == Init /\ [][Next]_vars

(***************************************************************************)
(* SpecRepeat: the same operations on detectors of Init that have one      *)
(* anchor region and a supporting edge, with no line or one line in the    *)
(* sweeps of the primary pass: what detect_angle returns depends on the    *)
(* override, and the calls with one override are observed.                 *)
(***************************************************************************)
InitRepeat ==
    /\ expolygons = Square
    /\ spacing \in Spacings
    /\ anchor_regions = MarginAnchors(SquareBox, 1, spacing, 0)
    /\ edges \in EdgeChoices \ { << >> }
    /\ clipped \in
         LET cat == LineCatalog(Len(anchor_regions), spacing)
         IN  { [k \in AngleClasses |-> IF k = 0 THEN s ELSE t] :
                    s \in NarrowSweeps(cat), t \in NarrowSweeps(cat) }
    /\ fallback_extra = << LineCatalog(Len(anchor_regions), spacing)[1] >>
    /\ lower_gap = 0
    /\ unsupported_lines = << 0, PI \div 2, PI \div 4 >>
    /\ angle = NoAngle
    /\ detected = FALSE
    /\ last = [op |-> "initialize"]
    /\ first_call \in { Observing(o) : o \in Overrides }

SpecRepeat == InitRepeat /\ [][Next]_vars

(***************************************************************************)
(* SpecSupported: the same operations on detectors whose lower slices      *)
(* cover the region, so that every clipped line lies inside one anchor.    *)
(***************************************************************************)
\* Clipped lines inside anchor n-1: a short one, and one longer than
\* 10 spacing whose quarter points are probed.
SupportedCatalog(n, sp) ==
    << ClippedLine(2 * sp, {n - 1}, {n - 1}, {n - 1}, {n - 1}, {n - 1}, 1),
       ClippedLine(12 * sp, {n - 1}, {n - 1}, {n - 1}, {n - 1}, {n - 1}, 1) >>

\* _anchor_regions of a rectangular region r that n lower slices cover,
\* but for the slits between one slice and the next: n bands of the region
\* grown by spacing.
CoverAnchors(r, n, sp) ==
    [k \in 1 .. n |->
        Rect(r.x0 - sp, r.x1 + sp, r.y0 - sp + 2 * (k - 1),
             IF k = n THEN r.y1 + sp ELSE r.y0 - sp + 2 * k - 1)]

\* The region is a square or a staircase; the supporting edge is the whole
\* contour of the grown region (a closed polyline) or an open part of it.
InitSupported ==
    /\ spacing \in Spacings
    /\ anchor_regions \in { CoverAnchors(SquareBox, n, spacing) : n \in 1 .. MaxAnchors }
    /\ expolygons \in { Square, Staircase }
    /\ edges \in { << [open |-> FALSE, direction |-> 0] >>,
                   << [open |-> TRUE, direction |-> 0] >> }
    /\ clipped \in { [k \in AngleClasses |-> s] :
                        s \in Sweeps(SupportedCatalog(Len(anchor_regions), spacing), MaxSegs) }
    /\ fallback_extra \in
            { << SupportedCatalog(Len(anchor_regions), spacing)[i] >> : i \in 1 .. 2 }
    /\ lower_gap = 0
    /\ unsupported_lines = << >>
    /\ angle = NoAngle
    /\ detected = FALSE
    /\ last = [op |-> "initialize"]
    /\ first_call = Unobserved

\* The staircase has its boundary lines only: the calls are those that read
\* the lines, the edges and the clipped lines.
NextSupported ==
    \/ \E o \in Overrides : DetectAngle(o)
    \/ \E a \in AngleArgs : UnsupportedEdges(a)

SpecSupported == InitSupported /\ [][NextSupported]_vars

(***************************************************************************)
(* SpecProbes: the same operations on detectors whose clipped lines have   *)
(* both ends in anchor n-1, with every outcome of the probes.              *)
(***************************************************************************)
\* Lines with both ends in anchor n-1: at most 10 spacing long, between 10
\* and 40 spacing, and longer than 40 spacing; the middle point, the quarter
\* points and the pieces of intersection_ln vary.
ProbeCatalog(n, sp) ==
    << ClippedLine(2 * sp, {n - 1}, {n - 1}, {n - 1}, {n - 1}, {n - 1}, 1),
       ClippedLine(2 * sp, {n - 1}, {n - 1}, {}, {n - 1}, {n - 1}, 2),
       ClippedLine(3 * sp, {n - 1}, {n - 1}, {n - 1}, {}, {n - 1}, 2),
       ClippedLine(12 * sp, {n - 1}, {n - 1}, {n - 1}, {n - 1}, {}, 2),
       ClippedLine(12 * sp, {n - 1}, {n - 1}, {n - 1}, {n - 1}, {n - 1}, 2),
       ClippedLine(41 * sp, {n - 1}, {n - 1}, {n - 1}, {n - 1}, {n - 1}, 2),
       ClippedLine(41 * sp, {n - 1}, {n - 1}, {n - 1}, {n - 1}, {n - 1}, 1) >>

InitProbes ==
    /\ expolygons = Square
    /\ spacing = 1
    /\ anchor_regions \in { MarginAnchors(SquareBox, n, spacing, 0) : n \in 1 .. MaxAnchors }
    /\ edges = << [open |-> TRUE, direction |-> 0] >>
    /\ clipped \in { [k \in AngleClasses |-> s] :
                        s \in Sweeps(ProbeCatalog(Len(anchor_regions), spacing), MaxSegs) }
    /\ fallback_extra = << LineCatalog(Len(anchor_regions), spacing)[1] >>
    /\ lower_gap = 0
    /\ unsupported_lines = << 0, PI \div 2 >>
    /\ angle = NoAngle
    /\ detected = FALSE
    /\ last = [op |-> "initialize"]
    /\ first_call = Unobserved

SpecProbes == InitProbes /\ [][Next]_vars

(***************************************************************************)
(* SpecDisjoint: the same operations on detectors built from lower slices  *)
(* at a distance lower_gap from the region.  initialize() grows the region *)
(* by spacing to find _edges and _anchor_regions; detect_angle clips its   *)
(* test lines with the region grown by spacing / 2.                        *)
(***************************************************************************)
\* the distances from the region to the lower slices, with spacing = 4:
\* nearer than spacing / 2, at spacing / 2, between spacing / 2 and
\* spacing, at spacing, beyond spacing
Gaps == {1, 2, 3, 4, 5}

\* _anchor_regions = intersection_ex(grown, union_safety_offset(lower_slices)):
\* empty beyond spacing; at exactly spacing the safety offset decides.
AnchorCounts(gap, sp) ==
    IF gap = NoLower \/ gap > sp THEN {0}
    ELSE IF gap = sp THEN 0 .. 1
    ELSE 1 .. MaxAnchors

\* _edges = intersection_pl(to_polylines(grown), contours): the parts of
\* the contour of the grown region inside a lower slice; none when the
\* lower slices lie inside the grown margin.
EdgeSets(gap, sp) ==
    IF gap = NoLower \/ gap > sp THEN { << >> }
    ELSE { << >>, << [open |-> TRUE, direction |-> 0] >> }

\* The clipped lines end on the contour of clip_area, spacing / 2 from the
\* region: an end point can lie in an anchor only when the lower slices
\* come that near (at exactly spacing / 2 contains() decides).
ReachableLines(gap, n, sp) ==
    IF n > 0 /\ gap # NoLower /\ 2 * gap <= sp
    THEN LineCatalog(n, sp)
    ELSE LineCatalog(0, sp)

InitDisjoint ==
    /\ expolygons = Square
    /\ spacing = 4
    /\ lower_gap \in {NoLower} \cup Gaps
    /\ anchor_regions \in { MarginAnchors(SquareBox, n, spacing, lower_gap) :
                                n \in AnchorCounts(lower_gap, spacing) }
    /\ edges \in EdgeSets(lower_gap, spacing)
    /\ clipped \in
         { [k \in AngleClasses |-> s] :
             s \in Sweeps(ReachableLines(lower_gap, Len(anchor_regions), spacing), MaxSegs) }
    /\ fallback_extra \in
            LET cat == ReachableLines(lower_gap, Len(anchor_regions), spacing)
            IN  IF Len(cat) = 1 THEN { << cat[1] >> }
                ELSE { << cat[1] >>, << cat[2] >> }
    /\ unsupported_lines = << 0, PI \div 2, PI \div 4 >>
    /\ angle = NoAngle
    /\ detected = FALSE
    /\ last = [op |-> "initialize"]
    /\ first_call = Unobserved

SpecDisjoint == InitDisjoint /\ [][Next]_vars

(***************************************************************************)
(* SpecSnap: the same operations on regions that are a block with a tower  *)
(* on it, for the trapezoids of coverage(precise) and their trimming.      *)
(***************************************************************************)
\* The fixed coordinates of the regions below: a block with a tower on it.
Tower == [min_x |-> 10, min_y |-> 10, block_max_y |-> 20, max_y |-> 60,
          width |-> 6]

\* A block up to block_max_x with a tower standing on it, which ends at
\* tower_max_x: the eight lines of its contour.
TowerRegion(block_max_x, tower_max_x) ==
    LET tl == tower_max_x - Tower.width
    IN  << OutlineLine(Tower.min_x, Tower.min_y, block_max_x, Tower.min_y),
           OutlineLine(block_max_x, Tower.min_y, block_max_x, Tower.block_max_y),
           OutlineLine(block_max_x, Tower.block_max_y, tower_max_x, Tower.block_max_y),
           OutlineLine(tower_max_x, Tower.block_max_y, tower_max_x, Tower.max_y),
           OutlineLine(tower_max_x, Tower.max_y, tl, Tower.max_y),
           OutlineLine(tl, Tower.max_y, tl, Tower.block_max_y),
           OutlineLine(tl, Tower.block_max_y, Tower.min_x, Tower.block_max_y),
           OutlineLine(Tower.min_x, Tower.block_max_y, Tower.min_x, Tower.min_y) >>

\* _anchor_regions of the tower region: one lower slice under the block,
\* one over the tower, so that the anchors are the margins of the region
\* grown by spacing below and above it.
TowerAnchors(block_max_x, tower_max_x, sp) ==
    << Rect(Tower.min_x - sp, block_max_x + sp, Tower.min_y - sp, Tower.min_y),
       Rect(tower_max_x - Tower.width - sp, tower_max_x + sp,
            Tower.max_y, Tower.max_y + sp) >>

\* The widths of the block and the places of the tower.
BlockMaxXs == {50, 54}
TowerMaxXs == {30, 31, 32, 47, 48, 49, 50}

InitSnap ==
    /\ spacing = 8
    /\ \E bx \in BlockMaxXs, tx \in TowerMaxXs :
          /\ tx < bx
          /\ expolygons = TowerRegion(bx, tx)
          /\ anchor_regions = TowerAnchors(bx, tx, spacing)
    /\ edges = << [open |-> TRUE, direction |-> 0] >>
    /\ clipped \in
         { [k \in AngleClasses |-> s] :
             s \in Sweeps(LineCatalog(Len(anchor_regions), spacing), 1) }
    /\ fallback_extra = << LineCatalog(Len(anchor_regions), spacing)[1] >>
    /\ lower_gap = 0
    /\ unsupported_lines = << 0, PI \div 2 >>
    /\ angle = NoAngle
    /\ detected = FALSE
    /\ last = [op |-> "initialize"]
    /\ first_call = Unobserved

SpecSnap == InitSnap /\ [][Next]_vars

(***************************************************************************)
(* SpecEdges: the _edges of initialize() for a square region and one       *)
(* rectangular lower slice.                                                *)
(***************************************************************************)
\* to_polylines(polygon) of a rectangle: its contour as one polyline that
\* ends on its first point.
RectPolyline(r) ==
    << [x |-> r.x0, y |-> r.y0], [x |-> r.x1, y |-> r.y0],
       [x |-> r.x1, y |-> r.y1], [x |-> r.x0, y |-> r.y1],
       [x |-> r.x0, y |-> r.y0] >>

\* intersection_pl(polyline, polygon): the inside portions of the polyline,
\* the pieces of consecutive segments joined where they meet.
RECURSIVE ClipPolyline(_, _, _, _)
ClipPolyline(pl, r, k, done) ==
    IF k >= Len(pl) THEN done
    ELSE LET pieces == ClipSegment(pl[k], pl[k + 1], r)
             n == Len(done)
         IN  ClipPolyline(pl, r, k + 1,
                IF pieces = << >> THEN done
                ELSE IF n > 0 /\ done[n][Len(done[n])] = pieces[1][1]
                     THEN [done EXCEPT ![n] = Append(@, pieces[1][2])]
                     ELSE Append(done, pieces[1]))

intersection_pl(pl, r) == ClipPolyline(pl, r, 1, << >>)

\* Line(a, b).direction() in [0, PI) for the lines that are parallel to an
\* axis or to a diagonal.
LineDirection(a, b) ==
    LET dx == b.x - a.x
        dy == b.y - a.y
    IN  CASE dy = 0 -> 0
          [] dx = 0 -> PI \div 2
          [] dx = dy -> PI \div 4
          [] dx = -dy -> 3 * (PI \div 4)

\* Where the segment from a to b lies with respect to the rectangle r: on
\* its contour, inside it (contour included) or not.
Lies(a, b, r) ==
    LET within == /\ r.x0 <= a.x /\ a.x <= r.x1 /\ r.x0 <= b.x /\ b.x <= r.x1
                  /\ r.y0 <= a.y /\ a.y <= r.y1 /\ r.y0 <= b.y /\ b.y <= r.y1
        ring   == \/ a.y = b.y /\ a.y \in {r.y0, r.y1}
                  \/ a.x = b.x /\ a.x \in {r.x0, r.x1}
    IN  IF within /\ ring THEN "contour"
        ELSE IF within THEN "inside" ELSE "outside"

\* An edge of _edges: whether first_point() != last_point(), the direction
\* from the first to the last point, the points, and where each of its
\* segments lies with respect to the lower slice.
EdgeOf(pts, lower) ==
    [open |-> pts[1] # pts[Len(pts)],
     direction |-> IF pts[1] = pts[Len(pts)] THEN 0
                   ELSE LineDirection(pts[1], pts[Len(pts)]),
     points |-> pts,
     lies |-> [k \in 1 .. Len(pts) - 1 |-> Lies(pts[k], pts[k + 1], lower)]]

\* _edges as the whole contour of the grown region
EdgesOfUnclipped(region, lower, sp) ==
    << EdgeOf(RectPolyline(GrowRect(region, sp)), lower) >>

\* this->_edges = intersection_pl(to_polylines(grown), contours)
EdgesOf(region, lower, sp) ==
    LET pls == intersection_pl(RectPolyline(GrowRect(region, sp)), lower)
    IN  [i \in 1 .. Len(pls) |-> EdgeOf(pls[i], lower)]

\* intersection_ex(grown, lower_slices): one anchor region, the rectangle
\* where the two rectangles overlap.
AnchorsOf(region, lower, sp) ==
    LET g == GrowRect(region, sp)
    IN  IF Max(g.x0, lower.x0) < Min(g.x1, lower.x1)
           /\ Max(g.y0, lower.y0) < Min(g.y1, lower.y1)
        THEN << Rect(Max(g.x0, lower.x0), Min(g.x1, lower.x1),
                     Max(g.y0, lower.y0), Min(g.y1, lower.y1)) >>
        ELSE << >>

\* A square region of the size of Square, and lower slices that cross it, cover a part of
\* it, a corner of it or all of it, or lie away from it.
SquareRect == Rect(8, 12, 8, 12)

LowerSlices ==
    { Rect(0, 20, 6, 10), Rect(9, 11, 0, 20), Rect(10, 20, 0, 20),
      Rect(10, 20, 10, 20), Rect(0, 10, 0, 10), Rect(0, 20, 0, 20),
      Rect(30, 40, 30, 40) }

InitEdges ==
    /\ expolygons = RectOutline(SquareRect)
    /\ spacing = 4
    /\ \E lower \in LowerSlices :
          /\ edges = EdgesOf(SquareRect, lower, spacing)
          /\ anchor_regions = AnchorsOf(SquareRect, lower, spacing)
    /\ clipped \in
         { [k \in AngleClasses |-> s] :
             s \in Sweeps(LineCatalog(Len(anchor_regions), spacing), MaxSegs) }
    /\ fallback_extra = << LineCatalog(Len(anchor_regions), spacing)[1] >>
    /\ lower_gap = (IF Len(anchor_regions) > 0 THEN 0 ELSE spacing + 1)
    /\ unsupported_lines = << 0, PI \div 2 >>
    /\ angle = NoAngle
    /\ detected = FALSE
    /\ last = [op |-> "initialize"]
    /\ first_call = Unobserved

SpecEdges == InitEdges /\ [][Next]_vars

(***************************************************************************)
(* SpecCandidates: bridge_direction_candidates as a function of the        *)
(* region's boundary lines and of the supporting edges.                    *)
(***************************************************************************)
\* directions at 0, near 0, near resolution and near PI
LineDirections == {0, 1, resolution + 1, PI - 1}

LineSqLens == {1, 4}

BoundaryLines == [direction : LineDirections, sqlen : LineSqLens]

SupportEdges ==
    { << >>, << [open |-> FALSE, direction |-> 0] >>,
      << [open |-> TRUE, direction |-> 0] >>,
      << [open |-> TRUE, direction |-> PI - 1] >> }

InitCandidates ==
    /\ expolygons \in UNION { [1 .. n -> BoundaryLines] : n \in 0 .. MaxLines }
    /\ edges \in SupportEdges
    /\ spacing = 1
    /\ anchor_regions = << >>
    /\ clipped = [k \in AngleClasses |-> << >>]
    /\ fallback_extra = << LineCatalog(0, 1)[1] >>
    /\ lower_gap = (IF edges # << >> THEN spacing ELSE NoLower)
    /\ unsupported_lines = << >>
    /\ angle = NoAngle
    /\ detected = FALSE
    /\ last = [op |-> "initialize"]
    /\ first_call = Unobserved

BridgeDirectionCandidates(only_from_polygon) ==
    /\ last' = [op |-> "bridge_direction_candidates",
                only_from_polygon |-> only_from_polygon]
                 @@ CandidatesWithTolerance(expolygons, edges, only_from_polygon)
    /\ UNCHANGED << angle, detected, first_call, geometry >>

NextCandidates == \E b \in BOOLEAN : BridgeDirectionCandidates(b)

SpecCandidates == InitCandidates /\ [][NextCandidates]_vars

(***************************************************************************)
(* SpecCap: bridge_direction_candidates on regions with many boundary      *)
(* lines, where the mean filter and the while loop run.                    *)
(***************************************************************************)
\* the number of boundary lines beyond MeanSample (and beyond 2 MeanSample)
CapExtra == 60

\* the angle between one boundary line and the next
CapStrides == {2, 3, 5}

InitCap ==
    /\ expolygons \in
            { BigRegion(n, stride, short_head) :
                n \in {MeanSample, MeanSample + CapExtra, 2 * MeanSample + CapExtra},
                stride \in CapStrides, short_head \in BOOLEAN }
    /\ edges \in SupportEdges
    /\ spacing = 1
    /\ anchor_regions = << >>
    /\ clipped = [k \in AngleClasses |-> << >>]
    /\ fallback_extra = << LineCatalog(0, 1)[1] >>
    /\ lower_gap = (IF edges # << >> THEN spacing ELSE NoLower)
    /\ unsupported_lines = << >>
    /\ angle = NoAngle
    /\ detected = FALSE
    /\ last = [op |-> "initialize"]
    /\ first_call = Unobserved

SpecCap == InitCap /\ [][NextCandidates]_vars

(***************************************************************************)
(* Properties.                                                             *)
(***************************************************************************)
IsDetect == last.op = "detect_angle"

\* the list detect_angle scores: the one of the last sweep loop that ran
ScoredList == IF last.fallback_ran THEN last.fallback ELSE last.primary

AllZeroAnchored(cs) == \A i \in 1 .. Len(cs) : cs[i].total_length_anchored = 0

\* x >= y on two scores of the same scoring; false when one is NaN.
CoverageAtLeast(x, y) ==
    ~x.nan /\ ~y.nan /\ ~DoubleGreater(y.value, x.value)

\* C1: whenever detect_angle(override) returns true, for any override
\* (zero, negative, >= 2 PI), the stored angle is in [0, PI).
C1_AngleInRange ==
    (IsDetect /\ last.ret) => (0 <= angle /\ angle < PI)

\* C2: detect_angle never chooses the angle of a candidate with zero
\* anchored length while another candidate of the same pass has anchored
\* length > 0.
C2_ZeroAnchoredNotChosen ==
    (IsDetect /\ last.ret) =>
        ~ ( /\ ScoredList[last.i_best].total_length_anchored = 0
            /\ \E j \in 1 .. Len(ScoredList) :
                    ScoredList[j].total_length_anchored > 0 )

\* C3: if edges or anchor_regions is empty, detect_angle returns false for
\* every override without enumerating candidates or sweeping any line.
C3_NoAnchorsNoSweep ==
    (IsDetect /\ (Len(edges) = 0 \/ Len(anchor_regions) = 0)) =>
        /\ ~last.ret
        /\ last.enumerations = 0
        /\ last.primary = << >>
        /\ ~last.fallback_ran
        /\ last.fallback = << >>

\* a call with an override on a detector with anchors whose lines have
\* anchored ends, but without supporting edges
C3_Witness ==
    /\ IsDetect
    /\ last.override # 0
    /\ Len(edges) = 0
    /\ Len(anchor_regions) > 0
    /\ \E i \in 1 .. Len(clipped[0]) : clipped[0][i].a # {} /\ clipped[0][i].b # {}
    /\ ~last.ret

\* C4 as stated: when edges or anchor_regions is empty, coverage(a) and
\* unsupported_edges(a) return an empty result for every angle argument,
\* explicit or defaulted.
C4_EmptyWithoutAnchors ==
    (Len(edges) = 0 \/ Len(anchor_regions) = 0) =>
        /\ last.op = "coverage" => last.polygons = << >>
        /\ last.op = "unsupported_edges" => last.unsupported = << >>

\* C4 amended: when edges or anchor_regions is empty, coverage(a) and
\* unsupported_edges(a) return an empty result when a is the sentinel, and
\* coverage(a) returns an empty result for every a when anchor_regions is
\* empty.
C4_EmptyWithoutAnchorsDefaulted ==
    (Len(edges) = 0 \/ Len(anchor_regions) = 0) =>
        /\ (last.op = "coverage" /\ (last.arg = NoAngle \/ Len(anchor_regions) = 0))
                => last.polygons = << >>
        /\ (last.op = "unsupported_edges" /\ last.arg = NoAngle)
                => last.unsupported = << >>

\* coverage with an explicit angle on a detector of a region with
\* supporting edges and without anchor regions
C4_Witness ==
    /\ last.op = "coverage"
    /\ last.arg # NoAngle
    /\ Len(anchor_regions) = 0
    /\ Len(edges) > 0
    /\ Len(expolygons) > 0
    /\ last.polygons = << >>

\* C5: if detect_angle never returned true and the caller passes the
\* sentinel, coverage returns no polygon and unsupported_edges no polyline.
C5_NoAngleChosenEmpty ==
    /\ (~detected /\ last.op = "coverage" /\ last.arg = NoAngle)
            => last.polygons = << >>
    /\ (~detected /\ last.op = "unsupported_edges" /\ last.arg = NoAngle)
            => last.unsupported = << >>

\* unsupported_edges with the sentinel, no angle chosen, on a detector with
\* edges, anchors and unsupported lines
C5_Witness ==
    /\ ~detected
    /\ last.op = "unsupported_edges"
    /\ last.arg = NoAngle
    /\ Len(edges) > 0
    /\ Len(anchor_regions) > 0
    /\ Len(unsupported_lines) > 0
    /\ last.unsupported = << >>

\* C6: detect_angle returns false iff edges or anchor_regions is empty, or
\* every candidate has zero anchored length in the primary pass and every
\* candidate has zero anchored length in the fallback pass.
C6_FalseIffNoAnchoredLength ==
    IsDetect =>
        ( ~last.ret <=>
            \/ Len(edges) = 0
            \/ Len(anchor_regions) = 0
            \/ /\ AllZeroAnchored(last.primary)
               /\ AllZeroAnchored(last.fallback) )

\* a call without override that swept lines in both passes, found none
\* anchored and returned false
C6_Witness ==
    /\ IsDetect
    /\ last.override = 0
    /\ ~last.ret
    /\ last.fallback_ran
    /\ \E i \in 1 .. Len(last.primary) : last.primary[i].nb_lines_free > 0
    /\ \E i \in 1 .. Len(last.fallback) : last.fallback[i].nb_lines_free > 0

\* C7: detect_angle selects a candidate whose coverage is the maximum over
\* all scored candidates, and the first of the list among those of equal
\* maximal coverage.
C7_SelectsFirstMaximum ==
    (IsDetect /\ last.ret) =>
        \A j \in 1 .. Len(last.coverage) :
            /\ CoverageAtLeast(last.coverage[last.i_best], last.coverage[j])
            /\ j < last.i_best =>
                    CoverageGreater(last.coverage[last.i_best], last.coverage[j])

\* C8: with a non-zero override the candidate list is exactly the single
\* entry BridgeDirection(override) wherever candidates are swept or scored,
\* in the primary and in the fallback pass.
C8_SingleOverrideCandidate ==
    (IsDetect /\ last.override # 0 /\ Len(edges) > 0 /\ Len(anchor_regions) > 0) =>
        /\ Len(last.primary) = 1
        /\ last.primary[1].angle = last.override
        /\ last.fallback_ran =>
                /\ Len(last.fallback) = 1
                /\ last.fallback[1].angle = last.override
        /\ Len(last.coverage) <= 1

\* C9: when detect_angle is called with an override in (0, PI) and returns
\* true, the stored angle equals the override, whichever pass produced the
\* anchored coverage.
C9_OverrideStored ==
    (IsDetect /\ last.override > 0 /\ last.override < PI /\ last.ret) =>
        angle = last.override

\* an override in (0, PI) that found its anchored length in the fallback pass
C9_Witness ==
    /\ IsDetect
    /\ last.override > 0
    /\ last.override < PI
    /\ last.ret
    /\ last.fallback_ran
    /\ angle = last.override

\* C10: after bridge_direction_candidates (either value of
\* only_from_polygon) no two candidates of the returned list, adjacent or
\* not, first and last included, are parallel modulo PI within the final
\* tolerance.
C10_NoParallelPair ==
    last.op = "bridge_direction_candidates" =>
        \A i, j \in 1 .. Len(last.angles) :
            i < j => ~directions_parallel(last.angles[i].angle,
                                          last.angles[j].angle,
                                          last.min_resolution)

\* an enumeration with the sampled angles 0 and PI and boundary lines at
\* PI - 1 and at 0 or 1, of which some candidates were deleted
C10_Witness ==
    /\ last.op = "bridge_direction_candidates"
    /\ ~last.only_from_polygon
    /\ \E i \in 1 .. Len(expolygons) : expolygons[i].direction = PI - 1
    /\ \E i \in 1 .. Len(expolygons) : expolygons[i].direction \in {0, 1}
    /\ Len(last.angles) >= 2
    /\ Len(last.angles) < Len(UniformAngles) + Len(expolygons)

\* C11: bridge_direction_candidates ends and returns at most 200
\* candidates, however many boundary lines the region has.
C11_AtMostMaxCandidates ==
    last.op = "bridge_direction_candidates" => Len(last.angles) <= MaxCandidates

\* an enumeration on more than MeanSample lines in which the while loop
\* doubled the tolerance more than once
C11_Witness ==
    /\ last.op = "bridge_direction_candidates"
    /\ Len(expolygons) > MeanSample
    /\ last.min_resolution > 2 * (resolution \div 8)
    /\ Len(last.angles) <= MaxCandidates

\* ratio_median and ratio_max of candidate c of the scored list cs are in
\* [0, 1]: the numerator is between 0 and the denominator.
RatiosInUnit(cs, c) ==
    LET dm == Max(1, MaxOf(cs, "median_length_anchor") - MinOf(cs, "median_length_anchor"))
        dx == Max(1, MaxOf(cs, "max_length_anchored") - MinOf(cs, "max_length_anchored"))
        m  == c.median_length_anchor - MinOf(cs, "median_length_anchor")
        x  == c.max_length_anchored - MinOf(cs, "max_length_anchored")
    IN  0 <= m /\ m <= dm /\ 0 <= x /\ x <= dx

\* C12: every scored candidate with total_length_free = 0 has a coverage
\* in [70, 105], and ratio_median and ratio_max are in [0, 1] for every
\* scored candidate.
C12_ScoreInRange ==
    (IsDetect /\ last.ret) =>
        \A i \in 1 .. Len(ScoredList) :
            /\ RatiosInUnit(ScoredList, ScoredList[i])
            /\ ScoredList[i].total_length_free = 0 =>
                    /\ CoverageAtLeast(last.coverage[i], [nan |-> FALSE, value |-> DoubleOf(70)])
                    /\ CoverageAtLeast([nan |-> FALSE, value |-> DoubleOf(105)], last.coverage[i])

\* lower_slices covers the whole region: one anchor region, which contains
\* the end points, the middle and the quarter points of every clipped line
\* of both passes, and supporting edges.
FullySupported ==
    /\ Len(anchor_regions) = 1
    /\ Len(edges) > 0
    /\ \A k \in AngleClasses : \A i \in 1 .. Len(ClippedFallback(k)) :
            LET line == ClippedFallback(k)[i]
            IN  /\ line.a = {0} /\ line.b = {0} /\ line.mid = {0}
                /\ line.qa = {0} /\ line.qb = {0} /\ line.pieces = 1

\* C13: if lower_slices covers the whole region, detect_angle() returns
\* true.
C13_FullySupportedDetected ==
    (IsDetect /\ last.override = 0 /\ FullySupported) => last.ret

\* C14 as stated: if lower_slices is empty or disjoint from the region
\* (supports within spacing of its boundary included), detect_angle
\* returns false.
C14_DisjointNotDetected ==
    (IsDetect /\ (lower_gap = NoLower \/ lower_gap > 0)) => ~last.ret

\* C14 amended: if lower_slices is empty or farther than spacing / 2 from
\* the region, detect_angle returns false.
C14_BeyondClipAreaNotDetected ==
    (IsDetect /\ (lower_gap = NoLower \/ 2 * lower_gap > spacing)) => ~last.ret

\* lower slices between spacing / 2 and spacing from the region: there are
\* anchors and edges, both passes sweep lines and none is anchored
C14_Witness ==
    /\ IsDetect
    /\ 2 * lower_gap > spacing
    /\ lower_gap < spacing
    /\ Len(anchor_regions) > 0
    /\ Len(edges) > 0
    /\ \E i \in 1 .. Len(last.primary) : last.primary[i].nb_lines_free > 0
    /\ last.fallback_ran
    /\ ~last.ret

\* C15: every polyline unsupported_edges(a) returns has exactly two points
\* and a direction not parallel to a (the stored angle when a is the
\* sentinel).
C15_UnsupportedNotParallel ==
    last.op = "unsupported_edges" =>
        \A i \in 1 .. Len(last.unsupported) :
            /\ Len(last.unsupported[i].points) = 2
            /\ ~directions_parallel(last.unsupported[i].direction,
                                    IF last.arg = NoAngle THEN angle ELSE last.arg, 0)

\* a call with the sentinel after detect_angle stored an angle, that
\* removed a parallel line and returned the others
C15_Witness ==
    /\ last.op = "unsupported_edges"
    /\ last.arg = NoAngle
    /\ detected
    /\ Len(last.unsupported) > 0
    /\ Len(last.unsupported) < Len(unsupported_lines)

\* The distance from the point p to a boundary line parallel to an axis, as
\* the larger of the distances along x and along y: offset() joins with
\* miters, which leaves the right corners of these regions square.
SegmentDist(p, line) ==
    LET x1 == IF line.a.x < line.b.x THEN line.a.x ELSE line.b.x
        x2 == Max(line.a.x, line.b.x)
        y1 == IF line.a.y < line.b.y THEN line.a.y ELSE line.b.y
        y2 == Max(line.a.y, line.b.y)
        dx == Max(Max(x1 - p.x, p.x - x2), 0)
        dy == Max(Max(y1 - p.y, p.y - y2), 0)
    IN  Max(dx, dy)

\* p lies inside the region: a ray to the right crosses the contour an odd
\* number of times.
InsideRegion(p) ==
    Cardinality({ i \in 1 .. Len(expolygons) :
                    /\ expolygons[i].a.x = expolygons[i].b.x
                    /\ expolygons[i].a.x > p.x
                    /\ (expolygons[i].a.y <= p.y) # (expolygons[i].b.y <= p.y) })
        % 2 = 1

\* p lies in offset(regions, +d): in the region or within d of its contour.
WithinGrown(p, d) ==
    \/ InsideRegion(p)
    \/ \E i \in 1 .. Len(expolygons) : SegmentDist(p, expolygons[i]) <= d

\* C16: the polygons coverage(a, precise) returns are contained in
\* offset(regions, +spacing), the precise trapezoids after their trimming
\* included: every vertex of every returned polygon lies within spacing of
\* the region.
C16_CoverageWithinGrown ==
    last.op = "coverage" =>
        \A k \in 1 .. Len(last.polygons) :
            \A i \in 1 .. Len(last.polygons[k]) :
                WithinGrown(last.polygons[k][i], spacing)

\* C17: coverage and unsupported_edges leave the detector as it is (regions,
\* lower slices, spacing, edges, anchor regions and the stored angle), and
\* detect_angle changes nothing but the stored angle.
C17_Frame ==
    [][ /\ (last'.op \in {"coverage", "unsupported_edges"}) =>
              (geometry' = geometry /\ angle' = angle)
        /\ (last'.op = "detect_angle") => (geometry' = geometry) ]_vars

\* coverage was called with an angle of its own after detect_angle stored
\* another one, which is still the stored one
C17_Witness ==
    /\ last.op = "coverage"
    /\ detected
    /\ angle # NoAngle
    /\ last.arg # NoAngle
    /\ last.arg # angle

\* C18: every polyline of edges is a subset of the contour of a lower
\* slice: each of its segments lies on the boundary ring.
C18_EdgesOnLowerContour ==
    \A i \in 1 .. Len(edges) :
        \A k \in 1 .. Len(edges[i].lies) : edges[i].lies[k] = "contour"

\* C18 as the code has it: every polyline of edges is a portion of the
\* boundary of the grown region that lies inside a lower slice, its contour
\* included.
C18_EdgesInsideLower ==
    \A i \in 1 .. Len(edges) :
        \A k \in 1 .. Len(edges[i].lies) :
            edges[i].lies[k] \in {"contour", "inside"}

\* an open edge of two segments or more that runs through the inside of the
\* lower slice
C18_Witness ==
    \E i \in 1 .. Len(edges) :
        /\ edges[i].open
        /\ Len(edges[i].lies) >= 2
        /\ \A k \in 1 .. Len(edges[i].lies) : edges[i].lies[k] = "inside"

\* The clipped lines that end in two different anchor regions.
CrossingLines(lines) ==
    { j \in 1 .. Len(lines) :
        \E ia \in lines[j].a, ib \in lines[j].b : ia # ib }

\* C19: in the primary pass a clipped line with its end a in one anchor
\* region and its end b in another one is classified anchored, whatever the
\* number of anchor regions and of clipped lines: every candidate of the
\* primary pass has counted the crossing lines of its sweep as anchored.
C19_CrossingLinesAnchored ==
    IsDetect =>
        \A i \in 1 .. Len(last.primary) :
            last.primary[i].nb_lines_anchored >=
                Cardinality(CrossingLines(
                    ClippedPrimary(AngleClass(last.primary[i].angle))))

\* The clipped lines no longer than 10 * spacing with both ends in the same
\* anchor region and their middle point inside some anchor region.
CoveredShortLines(lines) ==
    { j \in 1 .. Len(lines) :
        /\ lines[j].a \cap lines[j].b # {}
        /\ lines[j].mid # {}
        /\ lines[j].len <= 10 * spacing }

\* C20: in the primary pass the middle point marks a line with both ends in
\* the same anchor region as anchored only if it lies in no anchor region:
\* a line no longer than 10 * spacing whose middle point lies inside some
\* anchor region is classified free, so every candidate of the primary pass
\* has counted such lines of its sweep as free.
C20_CoveredShortLinesFree ==
    IsDetect =>
        \A i \in 1 .. Len(last.primary) :
            last.primary[i].nb_lines_free >=
                Cardinality(CoveredShortLines(
                    ClippedPrimary(AngleClass(last.primary[i].angle))))

\* The clipped lines with both ends in some anchor region.
BothEndsAnchored(lines) ==
    { j \in 1 .. Len(lines) : lines[j].a # {} /\ lines[j].b # {} }

\* The sum and the largest of the lengths of the lines at the positions J.
RECURSIVE LengthSum(_, _)
LengthSum(lines, J) ==
    IF J = {} THEN 0
    ELSE LET j == CHOOSE k \in J : TRUE
         IN  lines[j].len + LengthSum(lines, J \ {j})

LengthMax(lines, J) ==
    IF J = {} THEN 0
    ELSE CHOOSE m \in { lines[j].len : j \in J } :
            \A j \in J : lines[j].len <= m

\* C21: in the primary pass a clipped line with an end in no anchor region
\* is classified free: the anchored totals of every candidate come from the
\* lines of its sweep that have both ends in anchor regions.
C21_OpenEndedLinesFree ==
    IsDetect =>
        \A i \in 1 .. Len(last.primary) :
            LET lines == ClippedPrimary(AngleClass(last.primary[i].angle))
                both  == BothEndsAnchored(lines)
            IN  /\ last.primary[i].nb_lines_anchored <= Cardinality(both)
                /\ last.primary[i].total_length_anchored <= LengthSum(lines, both)
                /\ last.primary[i].max_length_anchored <= LengthMax(lines, both)

\* a candidate of the primary pass swept a line with one end in an anchor
\* region and the other in none, next to a line it counted as anchored
C21_Witness ==
    /\ IsDetect
    /\ \E i \in 1 .. Len(last.primary) :
          LET lines == ClippedPrimary(AngleClass(last.primary[i].angle))
          IN  /\ \E j \in 1 .. Len(lines) : lines[j].a # {} /\ lines[j].b = {}
              /\ last.primary[i].nb_lines_anchored = 1
              /\ last.primary[i].nb_lines_free = 1

\* The probes of a line with both ends in the same anchor region, as the
\* specification states them: the middle point lies in no anchor region; or
\* the line is longer than 10 * spacing and a quarter point lies in no
\* anchor region; or it is longer than 40 * spacing and intersection_ln
\* yields more than one piece.
ProbedAnchored(line) ==
    \/ line.mid = {}
    \/ line.len > 10 * spacing /\ (line.qa = {} \/ line.qb = {})
    \/ line.len > 40 * spacing /\ line.pieces > 1

\* The lines with both ends in the same anchor region that a probe marks.
ProbedLines(lines) ==
    { j \in 1 .. Len(lines) :
        lines[j].a \cap lines[j].b # {} /\ ProbedAnchored(lines[j]) }

\* C22: the probes are gated by length: the quarter points count only for a
\* same-anchor line longer than 10 * spacing whose middle point did not mark
\* it, intersection_ln only for one longer than 40 * spacing that no point
\* marked, which is then anchored iff there is more than one piece; a
\* same-anchor line that no applicable probe marks is free.  Every
\* candidate of the primary pass counts as anchored exactly the same-anchor
\* lines of its sweep that a probe marks (the sweeps hold no other lines).
C22_ProbesGatedByLength ==
    IsDetect =>
        \A i \in 1 .. Len(last.primary) :
            LET lines == ClippedPrimary(AngleClass(last.primary[i].angle))
            IN  (\A j \in 1 .. Len(lines) : lines[j].a \cap lines[j].b # {}) =>
                  /\ last.primary[i].nb_lines_anchored = Cardinality(ProbedLines(lines))
                  /\ last.primary[i].nb_lines_free =
                        Len(lines) - Cardinality(ProbedLines(lines))

\* C23: once detect_angle has passed its guard, the fallback pass runs iff no
\* candidate of the primary pass has anchored length > 0; when one has, no
\* fallback sweep happens and the scores and the chosen angle come from the
\* statistics of the primary pass.
C23_FallbackIffNoPrimaryCoverage ==
    (IsDetect /\ ~NoAnchors) =>
        /\ last.fallback_ran <=> AllZeroAnchored(last.primary)
        /\ ~last.fallback_ran =>
              /\ last.fallback = << >>
              /\ last.ret
              /\ last.coverage =
                    [i \in 1 .. Len(last.primary) |->
                        ScoreAll(last.primary)[i].coverage]
              /\ angle = StoredAngle(last.primary[last.i_best].angle)

\* a call whose primary pass found anchored length on some candidate and
\* none on another, and chose without a fallback pass
C23_Witness ==
    /\ IsDetect
    /\ ~last.fallback_ran
    /\ last.ret
    /\ \E i \in 1 .. Len(last.primary) : last.primary[i].total_length_anchored > 0
    /\ \E i \in 1 .. Len(last.primary) : last.primary[i].total_length_anchored = 0

\* The clipped lines with an end in some anchor region.
EitherEndAnchored(lines) ==
    { j \in 1 .. Len(lines) : lines[j].a # {} \/ lines[j].b # {} }

\* The accumulators candidate i of the fallback list holds when the sweep
\* loop of the fallback pass reaches it: zero on a new BridgeDirection, and
\* with an override what the primary pass has left on the entries of its
\* list, to which the fallback loop goes on adding.
BeforeFallback(i) ==
    IF last.override # 0 /\ i <= Len(last.primary) THEN last.primary[i]
    ELSE BridgeDirection(last.fallback[i].angle, 0)

\* C24: in the fallback pass a clipped line is counted as anchored iff one
\* of its ends lies in some anchor region, as free otherwise, and every
\* clipped line is counted once in one of the two groups: the sweep of a
\* candidate adds to its anchored count and length exactly the lines with
\* an end in an anchor region, and to its free count and length exactly
\* the other lines.
C24_FallbackCountsEachLineOnce ==
    (IsDetect /\ last.fallback_ran) =>
        \A i \in 1 .. Len(last.fallback) :
            LET lines  == ClippedFallback(AngleClass(last.fallback[i].angle))
                either == EitherEndAnchored(lines)
                before == BeforeFallback(i)
                after  == last.fallback[i]
            IN  /\ after.nb_lines_anchored - before.nb_lines_anchored
                        = Cardinality(either)
                /\ after.nb_lines_free - before.nb_lines_free
                        = Len(lines) - Cardinality(either)
                /\ after.total_length_anchored - before.total_length_anchored
                        = LengthSum(lines, either)
                /\ after.total_length_free - before.total_length_free
                        = LengthSum(lines, (1 .. Len(lines)) \ either)

\* a fallback pass, run with an override, whose sweep holds a line with
\* exactly one end in an anchor region and a line with no end in one
C24_Witness ==
    /\ IsDetect
    /\ last.fallback_ran
    /\ last.override # 0
    /\ \E i \in 1 .. Len(last.fallback) :
          LET lines == ClippedFallback(AngleClass(last.fallback[i].angle))
          IN  /\ \E j \in 1 .. Len(lines) : (lines[j].a = {}) # (lines[j].b = {})
              /\ \E j \in 1 .. Len(lines) : lines[j].a = {} /\ lines[j].b = {}
              /\ last.fallback[i].nb_lines_anchored > 0
              /\ last.fallback[i].nb_lines_free > 0

\* The angles of the boundary lines of the region with their squared
\* lengths, and the angles of the support edges with distinct end points.
BoundaryDirections ==
    { << expolygons[j].direction, expolygons[j].sqlen >> : j \in 1 .. Len(expolygons) }

OpenEdgeDirections ==
    { edges[j].direction : j \in { k \in 1 .. Len(edges) : edges[k].open } }

\* C25: in the fallback pass without override no candidate is a uniformly
\* sampled angle: each one is the direction of a boundary line of the
\* region, with its squared length, or the direction of a support edge
\* with distinct end points, with length 0.
C25_FallbackFromPolygonOnly ==
    (IsDetect /\ last.override = 0 /\ last.fallback_ran) =>
        \A i \in 1 .. Len(last.fallback) :
            \/ << last.fallback[i].angle, last.fallback[i].along_perimeter_length >>
                    \in BoundaryDirections
            \/ /\ last.fallback[i].angle \in OpenEdgeDirections
               /\ last.fallback[i].along_perimeter_length = 0

\* a call without override whose primary pass swept sampled angles that are
\* no direction of the region, and whose fallback pass swept candidates
C25_Witness ==
    /\ IsDetect
    /\ last.override = 0
    /\ last.fallback_ran
    /\ Len(last.fallback) > 0
    /\ Len(last.primary) > Len(last.fallback)
    /\ \E i \in 1 .. Len(last.primary) :
          /\ last.primary[i].along_perimeter_length = 0
          /\ last.primary[i].angle \notin OpenEdgeDirections

\* One of the two candidates comes from the perimeter, the other has
\* along_perimeter_length 0, and they are parallel within resolution.
MixedParallel(c1, c2) ==
    /\ \/ c1.along_perimeter_length = 0 /\ c2.along_perimeter_length > 0
       \/ c1.along_perimeter_length > 0 /\ c2.along_perimeter_length = 0
    /\ directions_parallel(c1.angle, c2.angle, resolution)

\* C26: after the first loop of the deduplication (tolerance resolution) no
\* two adjacent candidates remain of which one has along_perimeter_length 0
\* and the other along_perimeter_length > 0 while being parallel within
\* resolution, also when several candidates of length 0 precede one of the
\* perimeter.
C26_NoMixedParallelNeighbours ==
    last.op = "bridge_direction_candidates" =>
        \A i \in 1 .. Len(last.near_perimeter) - 1 :
            ~MixedParallel(last.near_perimeter[i], last.near_perimeter[i + 1])

\* C27: when the deduplication drops one of two parallel candidates, the one
\* dropped has the smaller along_perimeter_length; in particular the step
\* that compares the first with the last candidate never drops a candidate
\* of the perimeter (length > 0) while keeping a parallel one of length 0:
\* the candidate it removes is no longer than the first one.
C27_WrapAroundDropsSmaller ==
    (last.op = "bridge_direction_candidates"
        /\ Len(last.angles) < Len(last.before_pop)) =>
        last.before_pop[Len(last.before_pop)].along_perimeter_length
            <= last.before_pop[1].along_perimeter_length

\* The x-extents of a trapezoid widened by spacing / 4 + 1, and the centers
\* of its intersections with the anchors that bound y.
WidenedMinX(trapezoid) ==
    MinCoord([i \in 1 .. Len(trapezoid.points) |-> trapezoid.points[i].x])
        - (TruncDiv(spacing, 4) + 1)

WidenedMaxX(trapezoid) ==
    MaxCoord([i \in 1 .. Len(trapezoid.points) |-> trapezoid.points[i].x])
        + (TruncDiv(spacing, 4) + 1)

\* C28: in precise mode, after the trimming of a kept trapezoid (two
\* supports or more) every vertex has y between the smallest and the largest
\* center and x equal to min_x or to max_x, the trapezoid's own x-extents
\* widened by spacing / 4 + 1: no vertex keeps an x strictly between them.
\* (The trapezoids pushed to covered, in the frame coverage() works in.)
C28_SnappedToExtents ==
    (last.op = "coverage" /\ last.precise) =>
        \A k \in 1 .. Len(last.covered) :
            LET trapezoid == last.covered[k]
            IN  \A i \in 1 .. Len(trapezoid.pushed) :
                    /\ trapezoid.pushed[i].y >= MinCoord(trapezoid.centers)
                    /\ trapezoid.pushed[i].y <= MaxCoord(trapezoid.centers)
                    /\ trapezoid.pushed[i].x \in
                            {WidenedMinX(trapezoid), WidenedMaxX(trapezoid)}

\* C29: whenever detect_angle returns false, on the early exit or after a
\* fallback pass without coverage, the stored angle is left as it was: the
\* sentinel on a fresh detector, the angle chosen before after an earlier
\* successful call.
C29_FalseKeepsAngle ==
    [][ (last'.op = "detect_angle" /\ ~last'.ret) => angle' = angle ]_vars

\* detect_angle returned false after its fallback pass, on a detector that
\* holds the angle an earlier call has chosen
C29_Witness ==
    /\ IsDetect
    /\ ~last.ret
    /\ last.fallback_ran
    /\ detected
    /\ angle # NoAngle

\* C30 as stated: detect_angle is repeatable: a call with the override of
\* an earlier call returns the same value and leaves the same stored angle
\* as that call, whatever calls (also with other overrides) came between.
C30_Repeatable ==
    (IsDetect /\ first_call.called /\ last.override = first_call.override) =>
        /\ last.ret = first_call.ret
        /\ angle = first_call.angle

\* C30 amended: a call with the override of an earlier call returns the
\* same value as that call, whatever calls (also with other overrides)
\* came between, and when it returns true it stores the same angle.
C30_RepeatableReturn ==
    (IsDetect /\ first_call.called /\ last.override = first_call.override) =>
        /\ last.ret = first_call.ret
        /\ last.ret => angle = first_call.angle

\* detect_angle returned false as the first call with its override did,
\* on a detector that holds the angle a call with another override has
\* stored in between
C30_Witness ==
    /\ IsDetect
    /\ first_call.called
    /\ last.override = first_call.override
    /\ ~last.ret
    /\ ~first_call.ret
    /\ detected
    /\ angle # first_call.angle

====
